---- MODULE Spec2Model ----
(***************************************************************************)
(* Model of the popup session of the "Save to Tracker" extension           *)
(* (popup/popup.js, lib/notion-api.js, background/service-worker.js).      *)
(*                                                                         *)
(* Strings are atomic values in the state; the operators that look inside  *)
(* a string (toLowerCase, includes, the regular expressions) work on the   *)
(* character sequence Chars(s) of the strings that occur in the model.     *)
(***************************************************************************)
EXTENDS Integers, Sequences, FiniteSets, TLC

(***************************************************************************)
(* Text                                                                    *)
(***************************************************************************)
UpperToLower ==
  [c \in {"A","B","C","D","E","F","G","H","I","J","K","L","M","N","O","P","Q",
          "R","S","T","U","V","W","X","Y","Z"} |->
     CASE c = "A" -> "a" [] c = "B" -> "b" [] c = "C" -> "c" [] c = "D" -> "d"
       [] c = "E" -> "e" [] c = "F" -> "f" [] c = "G" -> "g" [] c = "H" -> "h"
       [] c = "I" -> "i" [] c = "J" -> "j" [] c = "K" -> "k" [] c = "L" -> "l"
       [] c = "M" -> "m" [] c = "N" -> "n" [] c = "O" -> "o" [] c = "P" -> "p"
       [] c = "Q" -> "q" [] c = "R" -> "r" [] c = "S" -> "s" [] c = "T" -> "t"
       [] c = "U" -> "u" [] c = "V" -> "v" [] c = "W" -> "w" [] c = "X" -> "x"
       [] c = "Y" -> "y" [] c = "Z" -> "z"]

\* The character sequences of the strings the model looks inside.
CharTable ==
  [s \in {"Name", "URL", "Location", "Tags", "Done", "Calc",
          "Remote", "San Francisco", "Go", "SQL",
          "remote", "REMOTE", "Berlin", "go", "Rust", "Acme", "Edited",
          "Remote - San Francisco Bay Area",
          "  ", "San", "San Francisco Bay Area", "Portland, OR",
          "OR - Oregon", "Austin, TX", "Texas (TX)", "Portland",
          "Manila", "SF", "Status", "To Review", "Applied", "Link"} |->
     CASE s = "Name" -> <<"N","a","m","e">>
       [] s = "URL" -> <<"U","R","L">>
       [] s = "Location" -> <<"L","o","c","a","t","i","o","n">>
       [] s = "Tags" -> <<"T","a","g","s">>
       [] s = "Done" -> <<"D","o","n","e">>
       [] s = "Calc" -> <<"C","a","l","c">>
       [] s = "Remote" -> <<"R","e","m","o","t","e">>
       [] s = "San Francisco" ->
            <<"S","a","n"," ","F","r","a","n","c","i","s","c","o">>
       [] s = "Go" -> <<"G","o">>
       [] s = "SQL" -> <<"S","Q","L">>
       [] s = "remote" -> <<"r","e","m","o","t","e">>
       [] s = "REMOTE" -> <<"R","E","M","O","T","E">>
       [] s = "Berlin" -> <<"B","e","r","l","i","n">>
       [] s = "go" -> <<"g","o">>
       [] s = "Rust" -> <<"R","u","s","t">>
       [] s = "Edited" -> <<"E","d","i","t","e","d">>
       [] s = "Acme" -> <<"A","c","m","e">>
       [] s = "Remote - San Francisco Bay Area" ->
            <<"R","e","m","o","t","e"," ","-"," ","S","a","n"," ",
              "F","r","a","n","c","i","s","c","o"," ","B","a","y"," ",
              "A","r","e","a">>
       [] s = "  " ->
            <<" "," ">>
       [] s = "San" ->
            <<"S","a","n">>
       [] s = "San Francisco Bay Area" ->
            <<"S","a","n"," ","F","r","a","n","c","i","s","c","o"," ","B","a","y"," ","A","r","e","a">>
       [] s = "Portland, OR" ->
            <<"P","o","r","t","l","a","n","d",","," ","O","R">>
       [] s = "OR - Oregon" ->
            <<"O","R"," ","-"," ","O","r","e","g","o","n">>
       [] s = "Austin, TX" ->
            <<"A","u","s","t","i","n",","," ","T","X">>
       [] s = "Texas (TX)" ->
            <<"T","e","x","a","s"," ","(","T","X",")">>
       [] s = "Portland" ->
            <<"P","o","r","t","l","a","n","d">>
       [] s = "Manila" ->
            <<"M","a","n","i","l","a">>
       [] s = "SF" ->
            <<"S","F">>
       [] s = "Status" ->
            <<"S","t","a","t","u","s">>
       [] s = "To Review" ->
            <<"T","o"," ","R","e","v","i","e","w">>
       [] s = "Applied" ->
            <<"A","p","p","l","i","e","d">>
       [] s = "Link" -> <<"L","i","n","k">>]

\* "" has no characters; every other string of the model is in CharTable.
Chars(s) == IF s = "" THEN <<>> ELSE CharTable[s]

\* String.prototype.toLowerCase, on a character sequence.
toLowerCase(cs) ==
  [i \in 1..Len(cs) |->
     IF cs[i] \in DOMAIN UpperToLower THEN UpperToLower[cs[i]] ELSE cs[i]]

Lower(s) == toLowerCase(Chars(s))

\* String.prototype.trim: strips the white space at both ends.
RECURSIVE trimStart(_)
trimStart(cs) ==
  IF cs # <<>> /\ Head(cs) = " " THEN trimStart(Tail(cs)) ELSE cs

RECURSIVE trimEnd(_)
trimEnd(cs) ==
  IF cs # <<>> /\ cs[Len(cs)] = " "
  THEN trimEnd(SubSeq(cs, 1, Len(cs) - 1)) ELSE cs

trim(cs) == trimEnd(trimStart(cs))

\* String.prototype.includes: p occurs in cs as a contiguous run
\* (the empty string occurs in every string).
includes(cs, p) ==
  \E i \in 1..(Len(cs) - Len(p) + 1) : SubSeq(cs, i, i + Len(p) - 1) = p

\* \w of a JavaScript regular expression, on the lower-cased text.
IsWordChar(c) ==
  c \in {"a","b","c","d","e","f","g","h","i","j","k","l","m","n","o","p","q",
         "r","s","t","u","v","w","x","y","z","0","1","2","3","4","5","6","7",
         "8","9","_"} \cup DOMAIN UpperToLower

\* The regular expression  p(?!\w) : p occurs and is not followed by a
\* word character.
includesNotBeforeWord(cs, p) ==
  \E i \in 1..(Len(cs) - Len(p) + 1) :
     /\ SubSeq(cs, i, i + Len(p) - 1) = p
     /\ (i + Len(p) > Len(cs) \/ ~IsWordChar(cs[i + Len(p)]))

\* The text literals of the source, as character sequences.
Lit(s) ==
  CASE s = "location" -> <<"l","o","c","a","t","i","o","n">>
    [] s = "where" -> <<"w","h","e","r","e">>
    [] s = "city" -> <<"c","i","t","y">>
    [] s = "place" -> <<"p","l","a","c","e">>
    [] s = "company" -> <<"c","o","m","p","a","n","y">>
    [] s = "company name" -> <<"c","o","m","p","a","n","y"," ","n","a","m","e">>
    [] s = "organization" -> <<"o","r","g","a","n","i","z","a","t","i","o","n">>
    [] s = "employer" -> <<"e","m","p","l","o","y","e","r">>
    [] s = "summary" -> <<"s","u","m","m","a","r","y">>
    [] s = "description" -> <<"d","e","s","c","r","i","p","t","i","o","n">>
    [] s = "about" -> <<"a","b","o","u","t">>
    [] s = "role" -> <<"r","o","l","e">>
    [] s = "role name" -> <<"r","o","l","e"," ","n","a","m","e">>
    [] s = "job title" -> <<"j","o","b"," ","t","i","t","l","e">>
    [] s = "position" -> <<"p","o","s","i","t","i","o","n">>
    [] s = "title" -> <<"t","i","t","l","e">>
    [] s = "remote" -> <<"r","e","m","o","t","e">>
    [] s = "san francisco" ->
         <<"s","a","n"," ","f","r","a","n","c","i","s","c","o">>
    [] s = "sf" -> <<"s","f">>
    [] s = "bay area" -> <<"b","a","y"," ","a","r","e","a">>
    [] s = "new york" -> <<"n","e","w"," ","y","o","r","k">>
    [] s = "nyc" -> <<"n","y","c">>
    [] s = "ny" -> <<"n","y">>
    [] s = "los angeles" -> <<"l","o","s"," ","a","n","g","e","l","e","s">>
    [] s = "la" -> <<"l","a">>
    [] s = "washington" -> <<"w","a","s","h","i","n","g","t","o","n">>
    [] s = "dc" -> <<"d","c">>
    [] s = "boston" -> <<"b","o","s","t","o","n">>
    [] s = "ma" -> <<"m","a">>
    [] s = "chicago" -> <<"c","h","i","c","a","g","o">>
    [] s = "il" -> <<"i","l">>
    [] s = "seattle" -> <<"s","e","a","t","t","l","e">>
    [] s = "wa" -> <<"w","a">>
    [] s = "austin" -> <<"a","u","s","t","i","n">>
    [] s = "tx" -> <<"t","x">>
    [] s = "denver" -> <<"d","e","n","v","e","r">>
    [] s = "co" -> <<"c","o">>

(***************************************************************************)
(* Column types, schemas, tab signals                                      *)
(***************************************************************************)
\* JavaScript null / undefined where a string is expected.
null == "<null>"

TYPE_PRIORITY ==
  [t \in {"title", "url", "select", "status", "multi_select", "rich_text",
          "number", "date", "checkbox", "email", "phone_number"} |->
     CASE t = "title" -> 1 [] t = "url" -> 2 [] t = "select" -> 3
       [] t = "status" -> 4 [] t = "multi_select" -> 5 [] t = "rich_text" -> 6
       [] t = "number" -> 7 [] t = "date" -> 8 [] t = "checkbox" -> 9
       [] t = "email" -> 10 [] t = "phone_number" -> 11]

\* A column: its name, its type and, for a choice type, its option names.
Col(n, t, o) == [name |-> n, type |-> t, options |-> o]

\* The schemas a database of the model can have (properties, in the order
\* of Object.entries).  "Calc" has a type the popup does not support.
SchemaTable ==
  [k \in {"full", "old", "tracker", "links", "plain"} |->
     IF k = "links"
     THEN << Col("Name", "title", <<>>),
             Col("URL", "url", <<>>),
             Col("Link", "url", <<>>) >>
     ELSE IF k = "plain"
     THEN << Col("Name", "title", <<>>),
             Col("Location", "select", <<"Remote", "San Francisco">>) >>
     ELSE IF k = "tracker"
     THEN << Col("Name", "title", <<>>),
             Col("URL", "url", <<>>),
             Col("Status", "select", <<"To Review", "Applied">>),
             Col("Location", "select", <<"Remote", "San Francisco">>) >>
     ELSE IF k = "full"
     THEN << Col("Name", "title", <<>>),
             Col("URL", "url", <<>>),
             Col("Location", "select", <<"Remote", "San Francisco">>),
             Col("Tags", "multi_select", <<"Go", "SQL">>),
             Col("Done", "checkbox", <<>>),
             Col("Calc", "formula", <<>>) >>
     ELSE << Col("URL", "url", <<>>),
             Col("Name", "title", <<>>),
             Col("Location", "select", <<"Remote", "San Francisco">>) >>]

NoSchema == "none"

Properties(schema) == SchemaTable[schema]

Range(f) == {f[i] : i \in DOMAIN f}

AllNames ==
  {"Name", "URL", "Location", "Tags", "Done", "Calc", "Status", "Link"}

\* The column of a name (a name has the same type in every schema).
Columns ==
  [n \in AllNames |->
     CHOOSE c \in UNION {Range(SchemaTable[k]) : k \in DOMAIN SchemaTable} :
        c.name = n]
ColumnOf(n) == Columns[n]

Types == [n \in AllNames |-> Columns[n].type]
TypeOf(n) == Types[n]

NamesTable ==
  [k \in DOMAIN SchemaTable |-> {c.name : c \in Range(SchemaTable[k])}]
SchemaNames(schema) ==
  IF schema = NoSchema THEN {} ELSE NamesTable[schema]

\* The tab signals of the page, and the replacement init() uses when
\* getTabInfo() fails.
TabPage ==
  [url |-> "https://jobs.acme.test/123",
   title |-> "Backend Engineer | Acme | LinkedIn",
   roleName |-> "Backend Engineer", companyName |-> "Acme",
   location |-> "Remote - San Francisco Bay Area", selectedText |-> ""]

TabNoLocation ==
  [url |-> "https://jobs.acme.test/123",
   title |-> "Backend Engineer | Acme | LinkedIn",
   roleName |-> "Backend Engineer", companyName |-> "Acme",
   location |-> "", selectedText |-> ""]

TabFallback ==
  [url |-> "", title |-> "", roleName |-> "", companyName |-> "",
   location |-> "", selectedText |-> ""]

AllTabs == {TabPage, TabNoLocation, TabFallback}

(***************************************************************************)
(* Field-name heuristics                                                   *)
(***************************************************************************)
isLocationField(name) ==
  LET lowercaseName == Lower(name) IN
    \/ includes(lowercaseName, Lit("location"))
    \/ includes(lowercaseName, Lit("where"))
    \/ includes(lowercaseName, Lit("city"))
    \/ includes(lowercaseName, Lit("place"))

isCompanyField(name) ==
  LET lowercaseName == Lower(name) IN
    \/ lowercaseName = Lit("company")
    \/ lowercaseName = Lit("company name")
    \/ includes(lowercaseName, Lit("company"))
    \/ lowercaseName = Lit("organization")
    \/ lowercaseName = Lit("employer")

isCompanyNameField(name) ==
  LET lowercaseName == Lower(name) IN
    IF \/ includes(lowercaseName, Lit("summary"))
       \/ includes(lowercaseName, Lit("description"))
       \/ includes(lowercaseName, Lit("about"))
    THEN FALSE
    ELSE \/ lowercaseName = Lit("company")
         \/ lowercaseName = Lit("company name")
         \/ lowercaseName = Lit("organization")
         \/ lowercaseName = Lit("employer")

isRoleField_withName(name) ==
  LET lowercaseName == Lower(name) IN
    \/ lowercaseName = <<"n", "a", "m", "e">>
    \/ lowercaseName = Lit("role")
    \/ lowercaseName = Lit("role name")
    \/ lowercaseName = Lit("job title")
    \/ lowercaseName = Lit("position")
    \/ lowercaseName = Lit("title")
    \/ includes(lowercaseName, Lit("job title"))
    \/ includes(lowercaseName, Lit("position"))

isRoleField(name) ==
  LET lowercaseName == Lower(name) IN
    \/ lowercaseName = Lit("role")
    \/ lowercaseName = Lit("role name")
    \/ lowercaseName = Lit("job title")
    \/ lowercaseName = Lit("position")
    \/ lowercaseName = Lit("title")
    \/ includes(lowercaseName, Lit("job title"))
    \/ includes(lowercaseName, Lit("position"))

(***************************************************************************)
(* Location / option matcher                                               *)
(***************************************************************************)
Min(S) == CHOOSE x \in S : \A y \in S : x <= y

\* `for (const option of options) if (P(option)) return option.name`
\* gives the first option that satisfies P, or null when the loop ends.
FirstOption(options, P(_)) ==
  LET hits == {i \in 1..Len(options) : P(options[i])} IN
    IF hits = {} THEN null ELSE options[Min(hits)]

\* cityStatePatterns: the alternatives of each pattern (plain ones, ones with
\* the (?!\w) look-ahead, and the washington.*dc alternative) and its
\* keywords.
cityStatePatterns ==
  << [plain |-> {"san francisco", "sf", "bay area"}, ahead |-> {},
      seq |-> <<>>, keywords |-> {"san francisco", "sf", "bay area"}],
     [plain |-> {"new york", "nyc"}, ahead |-> {"ny"},
      seq |-> <<>>, keywords |-> {"new york", "nyc", "ny"}],
     [plain |-> {"los angeles"}, ahead |-> {"la"},
      seq |-> <<>>, keywords |-> {"los angeles", "la"}],
     [plain |-> {}, ahead |-> {"dc"},
      seq |-> <<"washington", "dc">>, keywords |-> {"washington", "dc"}],
     [plain |-> {"boston"}, ahead |-> {"ma"},
      seq |-> <<>>, keywords |-> {"boston", "ma"}],
     [plain |-> {"chicago"}, ahead |-> {"il"},
      seq |-> <<>>, keywords |-> {"chicago", "il"}],
     [plain |-> {"seattle"}, ahead |-> {"wa"},
      seq |-> <<>>, keywords |-> {"seattle", "wa"}],
     [plain |-> {"austin"}, ahead |-> {"tx"},
      seq |-> <<>>, keywords |-> {"austin", "tx"}],
     [plain |-> {"denver"}, ahead |-> {"co"},
      seq |-> <<>>, keywords |-> {"denver", "co"}] >>

\* a.*b : a occurs and b occurs somewhere after it.
includesThen(cs, a, b) ==
  \E i \in 1..(Len(cs) - Len(a) + 1) :
     /\ SubSeq(cs, i, i + Len(a) - 1) = a
     /\ includes(SubSeq(cs, i + Len(a), Len(cs)), b)

patternTest(pat, cs) ==
  \/ \E a \in pat.plain : includes(cs, Lit(a))
  \/ \E a \in pat.ahead : includesNotBeforeWord(cs, Lit(a))
  \/ (pat.seq # <<>> /\ includesThen(cs, Lit(pat.seq[1]), Lit(pat.seq[2])))

\* location.match(/,\s*([A-Z]{2})\b/): the two letters of the leftmost
\* match, lower-cased, or <<>> when the expression does not match.
RECURSIVE skipSpaces(_, _)
skipSpaces(cs, j) ==
  IF j <= Len(cs) /\ cs[j] = " " THEN skipSpaces(cs, j + 1) ELSE j

stateMatchAt(cs, i) ==
  \E j \in (i + 1)..skipSpaces(cs, i + 1) :
     /\ j + 1 <= Len(cs)
     /\ cs[j] \in DOMAIN UpperToLower
     /\ cs[j + 1] \in DOMAIN UpperToLower
     /\ (j + 2 > Len(cs) \/ ~IsWordChar(cs[j + 2]))

stateMatch(cs) ==
  LET at == {i \in 1..Len(cs) : cs[i] = "," /\ stateMatchAt(cs, i)} IN
    IF at = {} THEN <<>>
    ELSE LET i == Min(at)
             j == CHOOSE k \in (i + 1)..skipSpaces(cs, i + 1) :
                    /\ k + 1 <= Len(cs)
                    /\ cs[k] \in DOMAIN UpperToLower
                    /\ cs[k + 1] \in DOMAIN UpperToLower
                    /\ (k + 2 > Len(cs) \/ ~IsWordChar(cs[k + 2]))
         IN toLowerCase(<<cs[j], cs[j + 1]>>)

\* Tier 5: the first pattern that matches the text and has an option with
\* one of its keywords decides.
RECURSIVE cityStateTier(_, _, _)
cityStateTier(k, location, options) ==
  IF k > Len(cityStatePatterns) THEN null
  ELSE LET pat == cityStatePatterns[k]
           hit == IF patternTest(pat, location)
                  THEN FirstOption(options,
                         LAMBDA o : \E kw \in pat.keywords :
                                       includes(Lower(o), Lit(kw)))
                  ELSE null
       IN IF hit # null THEN hit
          ELSE cityStateTier(k + 1, location, options)

findBestLocationMatch(extractedLocation, options) ==
  IF extractedLocation = "" \/ Len(options) = 0 THEN null
  ELSE
    LET location == trim(toLowerCase(Chars(extractedLocation)))
        exact == FirstOption(options, LAMBDA o : Lower(o) = location)
        contains == FirstOption(options,
                      LAMBDA o : includes(Lower(o), location))
        reverse == FirstOption(options,
                     LAMBDA o : includes(location, Lower(o)))
        remote == IF includes(location, Lit("remote"))
                  THEN FirstOption(options,
                         LAMBDA o : includes(Lower(o), Lit("remote")))
                  ELSE null
        city == cityStateTier(1, location, options)
        state == stateMatch(location)
        byState == IF state # <<>>
                   THEN FirstOption(options,
                          LAMBDA o : includes(Lower(o), state))
                   ELSE null
    IN CASE exact # null -> exact
         [] exact = null /\ contains # null -> contains
         [] exact = null /\ contains = null /\ reverse # null -> reverse
         [] exact = null /\ contains = null /\ reverse = null
              /\ remote # null -> remote
         [] exact = null /\ contains = null /\ reverse = null
              /\ remote = null /\ city # null -> city
         [] exact = null /\ contains = null /\ reverse = null
              /\ remote = null /\ city = null -> byState

(***************************************************************************)
(* Wire values (lib/notion-api.js)                                         *)
(***************************************************************************)
\* A nullable part of a wire value: None is JavaScript null, Some(x) is x.
None == <<>>
Some(x) == <<x>>

PropertyFormatters_title(value) ==
  [title |-> << [text |-> [content |-> value]] >>]

PropertyFormatters_url(value) ==
  [url |-> IF value = "" THEN None ELSE Some(value)]

PropertyFormatters_checkbox(value) == [checkbox |-> value]

PropertyFormatters_select(value) ==
  [select |-> IF value = "" THEN None ELSE Some([name |-> value])]

PropertyFormatters_multi_select(values) ==
  [multi_select |-> [i \in 1..Len(values) |-> [name |-> values[i]]]]

\* A JavaScript value that is a number, a string or null, where the code
\* tells them apart: a number is its decimal text (NaN is "NaN"), a string
\* is its characters.
JsNumber(cs) == [k |-> "num", cs |-> cs]
JsString(cs) == [k |-> "str", cs |-> cs]
JsNull == [k |-> "null", cs |-> <<>>]
NaN == JsNumber(<<"N", "a", "N">>)

Digits == {"0", "1", "2", "3", "4", "5", "6", "7", "8", "9"}

\* The longest prefix of cs made of digits.
RECURSIVE digitRun(_)
digitRun(cs) ==
  IF cs # <<>> /\ Head(cs) \in Digits
  THEN <<Head(cs)>> \o digitRun(Tail(cs)) ELSE <<>>

RECURSIVE stripLeadingZeros(_)
stripLeadingZeros(ds) ==
  IF Len(ds) > 1 /\ Head(ds) = "0" THEN stripLeadingZeros(Tail(ds)) ELSE ds

RECURSIVE stripTrailingZeros(_)
stripTrailingZeros(ds) ==
  IF ds # <<>> /\ ds[Len(ds)] = "0"
  THEN stripTrailingZeros(SubSeq(ds, 1, Len(ds) - 1)) ELSE ds

\* parseFloat of a text without exponent: leading white space is skipped,
\* then a sign, digits and a fraction are read as far as they go; what
\* follows is ignored; NaN when no digit was read.
parseFloat(cs) ==
  LET t == trimStart(cs)
      neg == t # <<>> /\ Head(t) = "-"
      u == IF t # <<>> /\ Head(t) \in {"-", "+"} THEN Tail(t) ELSE t
      int == digitRun(u)
      rest == SubSeq(u, Len(int) + 1, Len(u))
      frac == IF rest # <<>> /\ Head(rest) = "." THEN digitRun(Tail(rest))
              ELSE <<>>
      whole == IF int = <<>> THEN <<"0">> ELSE stripLeadingZeros(int)
      part == stripTrailingZeros(frac)
      abs == IF part = <<>> THEN whole ELSE whole \o <<".">> \o part
  IN IF int = <<>> /\ frac = <<>> THEN NaN
     ELSE IF neg /\ abs # <<"0">> THEN JsNumber(<<"-">> \o abs)
     ELSE JsNumber(abs)

\* Each rich_text block holds at most MAX_CHARS characters.
MAX_CHARS == 2000

\* PropertyFormatters.rich_text, on the sequence of the characters of the
\* text: `for (i = 0; i < content.length; i += MAX_CHARS)` pushes
\* content.slice(i, i + MAX_CHARS); no block gives one empty block.
RECURSIVE richTextBlocks(_, _)
richTextBlocks(content, i) ==
  IF i < Len(content)
  THEN << [text |-> [content |->
             SubSeq(content, i + 1,
                    IF i + MAX_CHARS < Len(content) THEN i + MAX_CHARS
                    ELSE Len(content))]] >>
       \o richTextBlocks(content, i + MAX_CHARS)
  ELSE <<>>

PropertyFormatters_rich_text_noEmpty(value) ==
  [rich_text |-> richTextBlocks(value, 0)]

PropertyFormatters_rich_text(value) ==
  LET blocks == richTextBlocks(value, 0) IN
    [rich_text |-> IF Len(blocks) > 0 THEN blocks
                   ELSE << [text |-> [content |-> <<>>]] >>]

\* `value !== '' && value !== null ? parseFloat(value) : null`; parseFloat
\* of a number reads the number's text.
PropertyFormatters_number(value) ==
  [number |-> IF value = JsString(<<>>) \/ value = JsNull THEN None
              ELSE Some(parseFloat(value.cs))]

PropertyFormatters_date(value) ==
  [date |-> IF value = "" THEN None ELSE Some([start |-> value])]

PropertyFormatters_email(value) ==
  [email |-> IF value = "" THEN None ELSE Some(value)]

PropertyFormatters_phone_number(value) ==
  [phone_number |-> IF value = "" THEN None ELSE Some(value)]

PropertyFormatters_status(value) ==
  [status |-> IF value = "" THEN None ELSE Some([name |-> value])]

\* PropertyFormatters[type](value).
PropertyFormatters(type, value) ==
  CASE type = "title" -> PropertyFormatters_title(value)
    [] type = "rich_text" -> PropertyFormatters_rich_text(value)
    [] type = "url" -> PropertyFormatters_url(value)
    [] type = "number" -> PropertyFormatters_number(value)
    [] type = "checkbox" -> PropertyFormatters_checkbox(value)
    [] type = "select" -> PropertyFormatters_select(value)
    [] type = "multi_select" -> PropertyFormatters_multi_select(value)
    [] type = "date" -> PropertyFormatters_date(value)
    [] type = "email" -> PropertyFormatters_email(value)
    [] type = "phone_number" -> PropertyFormatters_phone_number(value)
    [] type = "status" -> PropertyFormatters_status(value)

PropertyParsers_title(property) ==
  IF Len(property.title) > 0 /\ "plain_text" \in DOMAIN property.title[1]
  THEN property.title[1].plain_text ELSE ""

PropertyParsers_url(property) ==
  IF property.url = None THEN "" ELSE property.url[1]

PropertyParsers_checkbox(property) == property.checkbox

PropertyParsers_select(property) ==
  IF property.select = None THEN "" ELSE property.select[1].name

PropertyParsers_multi_select(property) ==
  [i \in 1..Len(property.multi_select) |-> property.multi_select[i].name]

\* `property.rich_text?.[0]?.plain_text || ''`: the text of the first block.
PropertyParsers_rich_text(property) ==
  IF Len(property.rich_text) > 0
     /\ "plain_text" \in DOMAIN property.rich_text[1]
  THEN property.rich_text[1].plain_text ELSE <<>>

\* `property.number !== null ? property.number : ''`
PropertyParsers_number(property) ==
  IF property.number = None THEN JsString(<<>>) ELSE property.number[1]

PropertyParsers_date(property) ==
  IF property.date = None THEN "" ELSE property.date[1].start

PropertyParsers_email(property) ==
  IF property.email = None THEN "" ELSE property.email[1]

PropertyParsers_phone_number(property) ==
  IF property.phone_number = None THEN "" ELSE property.phone_number[1]

PropertyParsers_status(property) ==
  IF property.status = None THEN "" ELSE property.status[1].name

PropertyParsers(type, property) ==
  CASE type = "title" -> PropertyParsers_title(property)
    [] type = "rich_text" -> PropertyParsers_rich_text(property)
    [] type = "url" -> PropertyParsers_url(property)
    [] type = "number" -> PropertyParsers_number(property)
    [] type = "checkbox" -> PropertyParsers_checkbox(property)
    [] type = "select" -> PropertyParsers_select(property)
    [] type = "multi_select" -> PropertyParsers_multi_select(property)
    [] type = "date" -> PropertyParsers_date(property)
    [] type = "email" -> PropertyParsers_email(property)
    [] type = "phone_number" -> PropertyParsers_phone_number(property)
    [] type = "status" -> PropertyParsers_status(property)

\* existingPageData when no row is loaded.
NoData == [n \in {} |-> ""]

\* parseNotionPage: the parsed value of every property of the page that the
\* schema has with a type that has a parser.
parseNotionPage(page, schema) ==
  LET names == {n \in DOMAIN page.properties :
                  /\ n \in SchemaNames(schema)
                  /\ TypeOf(n) \in DOMAIN TYPE_PRIORITY}
  IN [n \in names |-> PropertyParsers(TypeOf(n), page.properties[n])]

(***************************************************************************)
(* Rendering one field: the value the input starts with                    *)
(***************************************************************************)
\* `existingData && existingData[name]` used as a condition, for a string.
\* The heuristics are functions of the column name, and the location match
\* of the tab's location and the option list: their values for the names,
\* tabs and option lists of the model, computed once.
RoleFields == {n \in AllNames : isRoleField(n)}
CompanyNameFields == {n \in AllNames : isCompanyNameField(n)}
LocationFields == {n \in AllNames : isLocationField(n)}
CompanyFields == {n \in AllNames : isCompanyField(n)}
OptionLists == {ColumnOf(n).options : n \in AllNames}
bestLocationMatch ==
  [q \in {t.location : t \in AllTabs} \X OptionLists |->
     findBestLocationMatch(q[1], q[2])]
companyMatches ==
  [q \in {t.companyName : t \in AllTabs} \X OptionLists |->
     {i \in 1..Len(q[2]) : Lower(q[2][i]) = Lower(q[1])}]

HasText(existingData, name) ==
  name \in DOMAIN existingData /\ existingData[name] # ""

renderTitleField_tabOnly(name, tab, existingData) ==
  IF name \in RoleFields /\ tab.roleName # "" THEN tab.roleName
  ELSE IF name \in CompanyNameFields /\ tab.companyName # ""
       THEN tab.companyName
       ELSE tab.title

renderTitleField(name, tab, existingData) ==
  LET defaultValue ==
        IF ~HasText(existingData, name)
        THEN IF name \in RoleFields /\ tab.roleName # "" THEN tab.roleName
             ELSE IF name \in CompanyNameFields /\ tab.companyName # ""
                  THEN tab.companyName
                  ELSE tab.title
        ELSE tab.title
  IN IF HasText(existingData, name) THEN existingData[name]
     ELSE defaultValue

renderUrlField(name, tab, existingData) ==
  IF HasText(existingData, name) THEN existingData[name] ELSE tab.url

\* `select.value = v`: a value that is not the value of one of the <option>
\* elements leaves the select with no selection, and it reads "".
SetSelectValue(options, v) == IF v \in Range(options) THEN v ELSE ""

renderSelectField(name, property, tab, existingData) ==
  LET companyHits == companyMatches[<<tab.companyName, property.options>>]
      valueToSet ==
        IF HasText(existingData, name) THEN existingData[name]
        ELSE IF name \in LocationFields /\ tab.location # ""
             THEN bestLocationMatch[<<tab.location, property.options>>]
             ELSE IF name \in CompanyFields /\ tab.companyName # ""
                       /\ companyHits # {}
                  THEN property.options[Min(companyHits)]
                  ELSE null
  IN IF valueToSet # null /\ valueToSet # ""
     THEN SetSelectValue(property.options, valueToSet) ELSE ""

\* The hidden input of a multi-select holds the existing values.
renderMultiSelectField(name, existingData) ==
  IF name \in DOMAIN existingData THEN existingData[name] ELSE <<>>

\* The tags that start with the class "selected".
renderMultiSelectTags(name, property, existingData) ==
  {o \in Range(property.options) :
     name \in DOMAIN existingData /\ o \in Range(existingData[name])}

renderCheckboxField(name, existingData) ==
  IF name \in DOMAIN existingData THEN existingData[name] ELSE FALSE

\* The value a rendered field of a supported type starts with.
renderProperty(name, property, tab, existingData) ==
  CASE property.type = "title" -> renderTitleField(name, tab, existingData)
    [] property.type = "url" -> renderUrlField(name, tab, existingData)
    [] property.type = "select" ->
         renderSelectField(name, property, tab, existingData)
    [] property.type = "multi_select" ->
         renderMultiSelectField(name, existingData)
    [] property.type = "checkbox" -> renderCheckboxField(name, existingData)

\* The value of an input that is not rendered.
BlankValue(type) ==
  CASE type = "checkbox" -> FALSE
    [] type = "multi_select" -> <<>>
    [] OTHER -> ""

(***************************************************************************)
(* renderForm: which fields are rendered, and in which order               *)
(***************************************************************************)
\* Array.prototype.sort with the TYPE_PRIORITY comparator: a stable sort,
\* so the columns of one type keep their order.
RECURSIVE sortByPriority(_, _)
sortByPriority(props, p) ==
  IF p > 11 THEN <<>>
  ELSE SelectSeq(props, LAMBDA c : TYPE_PRIORITY[c.type] = p)
         \o sortByPriority(props, p + 1)

NamesOf(props) == [i \in 1..Len(props) |-> props[i].name]

renderOrder_dropNew(schema, hidden, order) ==
  LET visibleProps ==
        SelectSeq(Properties(schema),
                  LAMBDA c : c.name \notin hidden
                             /\ c.type \in DOMAIN TYPE_PRIORITY)
      visibleNames == Range(NamesOf(visibleProps))
  IN IF Len(order) > 0
     THEN SelectSeq(order, LAMBDA n : n \in visibleNames /\ n \notin hidden)
     ELSE NamesOf(sortByPriority(visibleProps, 1))

\* The names of the form groups renderForm appends, in order.
renderOrder(schema, hidden, order) ==
  LET visibleProps ==
        SelectSeq(Properties(schema),
                  LAMBDA c : c.name \notin hidden
                             /\ c.type \in DOMAIN TYPE_PRIORITY)
      visibleNames == Range(NamesOf(visibleProps))
      ordered == SelectSeq(order,
                   LAMBDA n : n \in visibleNames /\ n \notin hidden)
      remaining == sortByPriority(
                     SelectSeq(visibleProps,
                               LAMBDA c : c.name \notin Range(ordered)), 1)
  IN IF Len(order) > 0
     THEN ordered \o NamesOf(remaining)
     ELSE NamesOf(sortByPriority(visibleProps, 1))

PropertyOf(schema, n) ==
  CHOOSE c \in Range(Properties(schema)) : c.name = n

\* The input values after renderForm (an input that is not rendered has no
\* value; the model keeps the blank value of its type for it).
renderValues(groups, schema, tab, existingData) ==
  [n \in AllNames |->
     IF n \in Range(groups)
     THEN renderProperty(n, PropertyOf(schema, n), tab, existingData)
     ELSE BlankValue(TypeOf(n))]

renderTags(groups, schema, existingData) ==
  [n \in AllNames |->
     IF n \in Range(groups) /\ TypeOf(n) = "multi_select"
     THEN renderMultiSelectTags(n, PropertyOf(schema, n), existingData)
     ELSE {}]

(***************************************************************************)
(* buildPayload                                                            *)
(***************************************************************************)
\* getFieldValue reads the input of the group; buildPayload keeps a value
\* that is not '', null or undefined.  A checkbox reads true or false and a
\* multi-select reads a list, so neither is ever one of the three.
IsBlank(type, value) ==
  CASE type \in {"checkbox", "multi_select"} -> FALSE
    [] OTHER -> value = ""

buildPayload_keepHidden(groups, values, hidden) ==
  LET kept == {n \in Range(groups) :
                 ~IsBlank(TypeOf(n), values[n]) \/ TypeOf(n) = "title"}
  IN [n \in kept |->
        IF ~IsBlank(TypeOf(n), values[n])
        THEN PropertyFormatters(TypeOf(n), values[n])
        ELSE PropertyFormatters_title("Untitled")]

buildPayload_dropEmptyTitle(groups, values, hidden) ==
  LET kept == {n \in Range(groups) :
                 n \notin hidden /\ ~IsBlank(TypeOf(n), values[n])}
  IN [n \in kept |-> PropertyFormatters(TypeOf(n), values[n])]

buildPayload(groups, values, hidden) ==
  LET kept == {n \in Range(groups) :
                 /\ n \notin hidden
                 /\ (~IsBlank(TypeOf(n), values[n]) \/ TypeOf(n) = "title")}
  IN [n \in kept |->
        IF ~IsBlank(TypeOf(n), values[n])
        THEN PropertyFormatters(TypeOf(n), values[n])
        ELSE PropertyFormatters_title("Untitled")]

(***************************************************************************)
(* AI auto-fill: applying the returned values                              *)
(***************************************************************************)
\* A value of the JSON object the AI returns: a string, a number (5) or a
\* list of strings; s is the text an <input> shows when it is assigned.
Str(x) == [k |-> "str", s |-> x, l |-> <<>>]
Num == [k |-> "num", s |-> "5", l |-> <<>>]
List(xs, joined) == [k |-> "list", s |-> joined, l |-> xs]

\* The selected tags of a multi-select group, in DOM (option) order.
selectedValues(name, selected) ==
  SelectSeq(ColumnOf(name).options, LAMBDA o : o \in selected)

fillFormField_anyValue(fieldName, value, groups, values, tags) ==
  LET same == [values |-> values, tags |-> tags,
               filled |-> FALSE, threw |-> FALSE]
      type == TypeOf(fieldName)
      options == ColumnOf(fieldName).options
  IN
  IF fieldName \notin Range(groups) THEN same
  ELSE
    CASE type \in {"title", "url"} ->
           \* `if (input && value)`: every value the fill loop passes on is
           \* truthy here; the log line after the assignment calls
           \* value.substring
           [values |-> [values EXCEPT ![fieldName] = value.s],
            tags |-> tags, filled |-> TRUE, threw |-> value.k # "str"]
      [] type = "checkbox" ->
           [values |-> [values EXCEPT ![fieldName] = TRUE],
            tags |-> tags, filled |-> TRUE, threw |-> FALSE]
      [] type = "select" ->
           IF value.k # "str" THEN [same EXCEPT !.threw = TRUE]
           ELSE LET hits == {i \in 1..Len(options) :
                               Lower(options[i]) = Lower(value.s)}
                IN [values |-> [values EXCEPT ![fieldName] =
                                  IF hits = {} THEN value.s
                                  ELSE options[Min(hits)]],
                    tags |-> tags, filled |-> TRUE, threw |-> FALSE]
      [] type = "multi_select" ->
           IF value.k = "num"
           THEN [same EXCEPT !.threw = Len(options) > 0]
           ELSE LET vals == IF value.k = "list" THEN value.l
                            ELSE <<value.s>>
                    matched == {o \in Range(options) :
                                  \E i \in 1..Len(vals) :
                                     Lower(vals[i]) = Lower(o)}
                    selected == tags[fieldName] \cup matched
                IN IF matched = {} THEN same
                   ELSE [values |-> [values EXCEPT ![fieldName] =
                                       selectedValues(fieldName, selected)],
                         tags |-> [tags EXCEPT ![fieldName] = selected],
                         filled |-> TRUE, threw |-> FALSE]

\* fillFormField(fieldName, value) on the form (values, tags): the form it
\* leaves, whether it reports the field as filled, and whether it threw
\* (a TypeError of value.substring / value.toLowerCase on a non-string).
fillFormField(fieldName, value, groups, values, tags) ==
  LET same == [values |-> values, tags |-> tags,
               filled |-> FALSE, threw |-> FALSE]
      type == TypeOf(fieldName)
      options == ColumnOf(fieldName).options
  IN
  IF fieldName \notin Range(groups) THEN same
  ELSE
    CASE type \in {"title", "url"} ->
           \* `if (input && value)`: every value the fill loop passes on is
           \* truthy here; the log line after the assignment calls
           \* value.substring
           [values |-> [values EXCEPT ![fieldName] = value.s],
            tags |-> tags, filled |-> TRUE, threw |-> value.k # "str"]
      [] type = "checkbox" ->
           [values |-> [values EXCEPT ![fieldName] = TRUE],
            tags |-> tags, filled |-> TRUE, threw |-> FALSE]
      [] type = "select" ->
           IF value.k # "str" THEN [same EXCEPT !.threw = TRUE]
           ELSE LET hits == {i \in 1..Len(options) :
                               Lower(options[i]) = Lower(value.s)}
                IN IF hits = {} THEN same
                   ELSE [values |-> [values EXCEPT ![fieldName] =
                                       options[Min(hits)]],
                         tags |-> tags, filled |-> TRUE, threw |-> FALSE]
      [] type = "multi_select" ->
           IF value.k = "num"
           THEN [same EXCEPT !.threw = Len(options) > 0]
           ELSE LET vals == IF value.k = "list" THEN value.l
                            ELSE <<value.s>>
                    matched == {o \in Range(options) :
                                  \E i \in 1..Len(vals) :
                                     Lower(vals[i]) = Lower(o)}
                    selected == tags[fieldName] \cup matched
                IN IF matched = {} THEN same
                   ELSE [values |-> [values EXCEPT ![fieldName] =
                                       selectedValues(fieldName, selected)],
                         tags |-> [tags EXCEPT ![fieldName] = selected],
                         filled |-> TRUE, threw |-> FALSE]

\* The fill loop of handleAiInputSubmit over Object.entries(extractedFields):
\* an empty string is skipped, an exception ends the loop.
RECURSIVE fillLoop(_, _, _, _, _, _)
fillLoop(fields, i, groups, values, tags, filledCount) ==
  IF i > Len(fields)
  THEN [values |-> values, tags |-> tags,
        filledCount |-> filledCount, threw |-> FALSE]
  ELSE IF fields[i][2].k = "str" /\ fields[i][2].s = ""
       THEN fillLoop(fields, i + 1, groups, values, tags, filledCount)
       ELSE LET r == fillFormField(fields[i][1], fields[i][2],
                                   groups, values, tags)
            IN IF r.threw
               THEN [values |-> r.values, tags |-> r.tags,
                     filledCount |-> filledCount, threw |-> TRUE]
               ELSE fillLoop(fields, i + 1, groups, r.values, r.tags,
                             IF r.filled THEN filledCount + 1
                             ELSE filledCount)

(***************************************************************************)
(* The external store and the browser storage                              *)
(***************************************************************************)
\* Bounds of the model.
MaxActs == 3

DatabaseId == "db1"
CACHE_DURATION == 300000

\* The schema of the configured database in most sessions, and the one of
\* a tracker with a status column.
StoreSchema == "full"
TrackerSchema == "tracker"
\* A database with two url columns, and one with none.
LinksSchema == "links"
PlainSchema == "plain"

\* A property value as the store returns it: a text run carries plain_text.
storedValue(type, wire) ==
  IF type = "title"
  THEN [title |-> [i \in 1..Len(wire.title) |->
                     [plain_text |-> wire.title[i].text.content,
                      text |-> wire.title[i].text]]]
  ELSE IF type = "rich_text"
  THEN [rich_text |-> [i \in 1..Len(wire.rich_text) |->
                         [plain_text |-> wire.rich_text[i].text.content,
                          text |-> wire.rich_text[i].text]]]
  ELSE wire

\* The value the store holds for a column no value was sent for.
emptyStored(type) ==
  CASE type = "title" -> [title |-> <<>>]
    [] type = "url" -> [url |-> None]
    [] type = "select" -> [select |-> None]
    [] type = "multi_select" -> [multi_select |-> <<>>]
    [] type = "checkbox" -> [checkbox |-> FALSE]
    [] OTHER -> [formula |-> "n/a"]

\* The properties of a row after the store applied a payload to them.
storeApply(properties, payload) ==
  [n \in DOMAIN properties |->
     IF n \in DOMAIN payload THEN storedValue(TypeOf(n), payload[n])
     ELSE properties[n]]

emptyRow(schema) == [n \in SchemaNames(schema) |-> emptyStored(TypeOf(n))]
EmptyRow == emptyRow(StoreSchema)

\* A row some earlier session saved for the page, with every column filled,
\* and one with nothing but the URL.
FilledRow ==
  [id |-> "row1",
   properties |->
     storeApply(EmptyRow,
       [n \in {"Name", "URL", "Location", "Tags", "Done"} |->
          CASE n = "Name" -> PropertyFormatters_title("Old Title")
            [] n = "URL" -> PropertyFormatters_url(TabPage.url)
            [] n = "Location" -> PropertyFormatters_select("San Francisco")
            [] n = "Tags" -> PropertyFormatters_multi_select(<<"Go">>)
            [] n = "Done" -> PropertyFormatters_checkbox(TRUE)])]

BlankRow ==
  [id |-> "row1",
   properties |->
     storeApply(EmptyRow,
       [n \in {"URL"} |-> PropertyFormatters_url(TabPage.url)])]

\* Rows of the database with two url columns: one holds the page's URL in
\* the second url column only, two hold it in the first.
OtherUrl == "https://other.test/9"
RowLinkOnly ==
  [id |-> "rowA",
   properties |->
     storeApply(emptyRow(LinksSchema),
       [n \in {"URL", "Link"} |->
          IF n = "URL" THEN PropertyFormatters_url(OtherUrl)
          ELSE PropertyFormatters_url(TabPage.url)])]
RowFirst ==
  [id |-> "rowB",
   properties |->
     storeApply(emptyRow(LinksSchema),
       [n \in {"Name", "URL"} |->
          IF n = "Name" THEN PropertyFormatters_title("Old Title")
          ELSE PropertyFormatters_url(TabPage.url)])]
RowSecond ==
  [id |-> "rowC",
   properties |->
     storeApply(emptyRow(LinksSchema),
       [n \in {"URL", "Link"} |-> PropertyFormatters_url(TabPage.url)])]
\* A row of the database without a url column.
PlainRow ==
  [id |-> "rowP",
   properties |->
     storeApply(emptyRow(PlainSchema),
       [n \in {"Name"} |-> PropertyFormatters_title("Old Title")])]

NewIds == <<"new1", "new2", "new3", "new4", "new5", "new6">>

findUrlField_last(schema) ==
  LET names == NamesOf(Properties(schema))
      hits == {i \in 1..Len(names) : TypeOf(names[i]) = "url"}
  IN IF hits = {} THEN null
     ELSE names[CHOOSE i \in hits : \A j \in hits : j <= i]

findUrlField(schema) ==
  FirstOption(NamesOf(Properties(schema)), LAMBDA n : TypeOf(n) = "url")

\* The rows a query for `url equals u` on the column returns, in order.
queryResults(rows, urlFieldName, u) ==
  SelectSeq(rows,
            LAMBDA r : /\ urlFieldName \in DOMAIN r.properties
                       /\ "url" \in DOMAIN r.properties[urlFieldName]
                       /\ r.properties[urlFieldName].url = Some(u))

\* The cache entry of chrome.storage.local: the schema, the database id it
\* was cached for and its age when the popup opens.
NoCache == [schema |-> NoSchema, databaseId |-> "", age |-> 0]

loadCachedSchema_ignoreId(entry, currentDatabaseId) ==
  IF entry.schema # NoSchema
  THEN IF entry.age < CACHE_DURATION THEN entry.schema ELSE NoSchema
  ELSE NoSchema

loadCachedSchema(entry, currentDatabaseId) ==
  IF entry.schema # NoSchema
  THEN IF entry.databaseId # currentDatabaseId THEN NoSchema
       ELSE IF entry.age < CACHE_DURATION THEN entry.schema ELSE NoSchema
  ELSE NoSchema

cacheSchema(schema, databaseId) ==
  [schema |-> schema, databaseId |-> databaseId, age |-> 0]

(***************************************************************************)
(* The state of a popup session                                            *)
(***************************************************************************)
VARIABLES
  dbSchema,         \* the schema getDatabase() returns for the database
  credsStored,      \* chrome.storage holds notionSecret and databaseId
  cache,            \* chrome.storage: the cached schema entry
  storedHidden,     \* chrome.storage: hiddenFields (None when never saved)
  storedOrder,      \* chrome.storage: fieldOrder
  store,            \* the rows of the database, in the order a query lists them
  credentials,      \* notionApi.credentials is loaded
  initPc,           \* where init() is
  cachedSchema,     \* init(): the schema loadCachedSchema returned
  ui,               \* the panel shown: loading, error, success or form
  databaseSchema, tabInfo, hasOpenAI,
  hiddenFields, fieldOrder, existingPageId, existingPageData,
  lastLookup,       \* how the last checkForExistingEntry ended
  formGroups,       \* the .form-group elements of formFields, in order
  formValue,        \* the value of the input of each group
  formTags,         \* the tags with class "selected" of each multi-select
  banner,           \* formFields holds the "Editing existing entry" banner
  hiddenList,       \* the fields listed in the hidden-fields section
  submitLabel,      \* the text of submitBtn / quickSaveBtn
  saveDisabled,     \* submitBtn.disabled and quickSaveBtn.disabled
  submitReq,        \* handleSubmit: the call it awaits
  submitOutcome,    \* how the last handleSubmit ended: saved, or error (alert)
  aiPc,             \* the AI sub-flow: idle, modal, request or saving
  aiShown,          \* aiBtn is not hidden
  bgReq,            \* handleBackgroundSave: the call it awaits
  aiOutcome,        \* how the last AI sub-flow ended
  aiReply,          \* what extractFields settled with in that sub-flow
  aiPrompt,         \* the fields the prompt of the last AI request lists
  refreshPc,        \* where refreshSchema() is
  refreshShown,     \* refreshBtn is not hidden
  customizeOpen,    \* the customize modal is shown
  customizeItems,   \* the items of customizeFieldsList, in order
  pendingRenders,   \* toggleFieldVisibility calls that await the storage
  lastCall,         \* the last create / update call handed to notionApi
  sessionCreated,   \* the page this session created since the form was reset
  nCalls, nQueries,
  nActs,            \* the clicks, edits and shortcut messages so far
  fresh,            \* the form is as the last renderForm left it
  eval              \* a library function under evaluation, outside a session

envVars == <<dbSchema, credsStored, cache, storedHidden, storedOrder, store>>
initVars == <<credentials, initPc, cachedSchema>>
schemaVars == <<databaseSchema, tabInfo, hasOpenAI>>
prefVars == <<hiddenFields, fieldOrder>>
modeVars == <<existingPageId, existingPageData, lastLookup>>
formVars == <<formGroups, formValue, formTags, banner, hiddenList>>
saveVars == <<saveDisabled, submitReq, submitOutcome>>
aiVars == <<aiPc, aiShown, bgReq, aiOutcome, aiReply, aiPrompt>>
refreshVars == <<refreshPc, refreshShown>>
modalVars == <<customizeOpen, customizeItems>>
callVars == <<lastCall, sessionCreated, nCalls>>
countVars == <<nQueries, nActs>>

vars == <<envVars, initVars, ui, schemaVars, prefVars, modeVars, formVars,
          submitLabel, saveVars, aiVars, refreshVars, modalVars,
          pendingRenders, callVars, countVars, fresh, eval>>

NoReq == [kind |-> "none", id |-> null, payload |-> NoData]
BlankForm == [n \in AllNames |-> BlankValue(TypeOf(n))]
NoTags == [n \in AllNames |-> {}]

\* lastCall before any call: besides the call it keeps what the session
\* held when the call was built.
NoCall == [kind |-> "none", id |-> null, payload |-> NoData, source |-> "",
           held |-> null, hidden |-> {}, after |-> null,
           groups |-> <<>>, values |-> BlankForm]

\* What the browser storage and the database can hold when the popup opens.
FreshCache == [schema |-> "full", databaseId |-> DatabaseId, age |-> 1000]
StaleCache == [schema |-> "old", databaseId |-> DatabaseId, age |-> 1000]
OtherDbCache == [schema |-> "old", databaseId |-> "db0", age |-> 1000]
TrackerCache == [schema |-> "tracker", databaseId |-> DatabaseId,
                 age |-> 1000]
LinksCache == [schema |-> "links", databaseId |-> DatabaseId, age |-> 1000]
PlainCache == [schema |-> "plain", databaseId |-> DatabaseId, age |-> 1000]
ExpiredCache == [schema |-> "full", databaseId |-> DatabaseId,
                 age |-> CACHE_DURATION]
AllCaches == {NoCache, FreshCache, StaleCache, OtherDbCache, ExpiredCache}
NoPrefs == <<None, <<>>>>
SavedPrefs == <<Some({"Location"}), <<"Done", "Gone", "Name">>>>
AllPrefs == {NoPrefs, SavedPrefs}
AllStores == {<<>>, <<FilledRow>>, <<BlankRow>>}

\* The state when popup.js starts: the page shows the loading panel, the
\* buttons are enabled, nothing is rendered.
SessionWith(schema, stored, caches, prefs, stores) ==
  /\ dbSchema = schema
  /\ credsStored \in stored
  /\ cache \in caches
  /\ \E pref \in prefs :
        storedHidden = pref[1] /\ storedOrder = pref[2]
  /\ store \in stores
  /\ credentials = FALSE
  /\ initPc = "creds"
  /\ cachedSchema = NoSchema
  /\ ui = "loading"
  /\ databaseSchema = NoSchema
  /\ tabInfo = TabFallback
  /\ hasOpenAI = FALSE
  /\ hiddenFields = {}
  /\ fieldOrder = <<>>
  /\ existingPageId = null
  /\ existingPageData = NoData
  /\ lastLookup = "none"
  /\ formGroups = <<>>
  /\ formValue = BlankForm
  /\ formTags = NoTags
  /\ banner = FALSE
  /\ hiddenList = {}
  /\ submitLabel = "create"
  /\ saveDisabled = FALSE
  /\ submitReq = NoReq
  /\ submitOutcome = "none"
  /\ aiPc = "idle"
  /\ aiShown = FALSE
  /\ bgReq = NoReq
  /\ aiOutcome = "none"
  /\ aiReply = [ok |-> FALSE, fields |-> <<>>]
  /\ aiPrompt = <<>>
  /\ refreshPc = "idle"
  /\ refreshShown = FALSE
  /\ customizeOpen = FALSE
  /\ customizeItems = <<>>
  /\ pendingRenders = 0
  /\ lastCall = NoCall
  /\ sessionCreated = null
  /\ nCalls = 0 /\ nQueries = 0 /\ nActs = 0
  /\ fresh = FALSE

SessionOf(stored, caches, prefs, stores) ==
  SessionWith(StoreSchema, stored, caches, prefs, stores)

\* No library function is under evaluation while a session runs.
NoEval == [fn |-> "none"]

InitOf(stored, caches, prefs, stores) ==
  /\ SessionOf(stored, caches, prefs, stores)
  /\ eval = NoEval

Init == InitOf(BOOLEAN, AllCaches, AllPrefs, AllStores)

(***************************************************************************)
(* Helpers of the handlers                                                 *)
(***************************************************************************)
\* The types renderProperty has a renderer for; for any other type it
\* returns null and renderForm appends nothing.
renderers ==
  {"title", "rich_text", "url", "number", "checkbox", "select",
   "multi_select", "date", "email", "phone_number", "status"}

renderForm_allColumns(schema, tab, hidden, order, pageId, pageData) ==
  LET sortedProps == renderOrder(schema, hidden, order)
      others == SelectSeq(NamesOf(Properties(schema)),
                          LAMBDA n : n \notin hidden
                                     /\ n \notin Range(sortedProps))
  IN [groups |-> sortedProps \o others,
      values |-> renderValues(sortedProps, schema, tab, pageData),
      tags |-> renderTags(sortedProps, schema, pageData),
      banner |-> pageId # null,
      hiddenList |-> {n \in hidden : n \in SchemaNames(schema)}]

\* renderForm(databaseSchema, tabInfo) under the given preferences and mode.
renderForm(schema, tab, hidden, order, pageId, pageData) ==
  LET sortedProps == renderOrder(schema, hidden, order)
      groups == SelectSeq(sortedProps, LAMBDA n : TypeOf(n) \in renderers)
  IN
    [groups |-> groups,
     values |-> renderValues(groups, schema, tab, pageData),
     tags |-> renderTags(groups, schema, pageData),
     banner |-> pageId # null,
     hiddenList |-> {n \in hidden : n \in SchemaNames(schema)}]

\* What renderForm reads, and what it writes.
renderVars == <<databaseSchema, tabInfo, hiddenFields, fieldOrder,
                existingPageId, existingPageData, formGroups, formValue,
                formTags>>

\* A handler that does not render: the form stays as renderForm left it
\* unless the handler changes an input or something renderForm reads.
StaysFresh == fresh' = (fresh /\ renderVars' = renderVars)

SetForm(r) ==
  /\ formGroups' = r.groups
  /\ formValue' = r.values
  /\ formTags' = r.tags
  /\ banner' = r.banner
  /\ hiddenList' = r.hiddenList

\* updateSubmitButton
updateSubmitButton(pageId) == IF pageId # null THEN "update" ELSE "create"

\* loadHiddenFields / loadFieldOrder: the in-memory set is kept when the
\* storage has no list.
loadHiddenFields(stored, current) ==
  IF stored = None THEN current ELSE stored[1]

\* checkForExistingEntry sends a query only with a tab URL, a schema and a
\* url-typed column.
needsQuery(schema, tab) ==
  /\ tab.url # ""
  /\ schema # NoSchema
  /\ findUrlField(schema) # null

checkForExistingEntry_keepOnError(schema, tab, pageId, pageData, rows) ==
  IF ~needsQuery(schema, tab)
  THEN {[id |-> pageId, data |-> pageData, how |-> "skipped"]}
  ELSE LET found == queryResults(rows, findUrlField(schema), tab.url) IN
         {[id |-> pageId, data |-> pageData, how |-> "failed"],
          IF Len(found) > 0
          THEN [id |-> found[1].id,
                data |-> parseNotionPage(found[1], schema), how |-> "found"]
          ELSE [id |-> null, data |-> NoData, how |-> "empty"]}

\* The outcomes of checkForExistingEntry: existingPageId and
\* existingPageData after it, and how it ended.  Without a query the two are
\* left alone; a query that fails makes findPageByUrl return null, as does
\* a query with no result; of several results the first is taken.
checkForExistingEntry(schema, tab, pageId, pageData, rows) ==
  IF ~needsQuery(schema, tab)
  THEN {[id |-> pageId, data |-> pageData, how |-> "skipped"]}
  ELSE LET found == queryResults(rows, findUrlField(schema), tab.url) IN
         {[id |-> null, data |-> NoData, how |-> "failed"],
          IF Len(found) > 0
          THEN [id |-> found[1].id,
                data |-> parseNotionPage(found[1], schema), how |-> "found"]
          ELSE [id |-> null, data |-> NoData, how |-> "empty"]}

(***************************************************************************)
(* init()                                                                  *)
(***************************************************************************)
\* loadCredentials() settled: init goes on, or shows the error and returns.
InitCredentials ==
  /\ initPc = "creds"
  /\ \E lastError \in BOOLEAN :
       IF credsStored /\ ~lastError
       THEN /\ credentials' = TRUE
            /\ initPc' = "join"
            /\ ui' = ui
       ELSE /\ credentials' = FALSE
            /\ initPc' = "failed"
            /\ ui' = "error"
  /\ UNCHANGED <<eval, envVars, cachedSchema, schemaVars, prefVars, modeVars,
                 formVars, submitLabel, saveVars, aiVars, refreshVars,
                 modalVars, pendingRenders, callVars, countVars>>
  /\ StaysFresh

InitJoinOf_abortOnFailure(tabs, keys) ==
  /\ initPc = "join"
  /\ \E tab \in tabs, key \in keys :
       /\ tabInfo' = tab
       /\ hasOpenAI' = key
       /\ cachedSchema' = loadCachedSchema(cache, DatabaseId)
       /\ IF tab = TabFallback \/ ~key
          THEN initPc' = "failed" /\ ui' = "error"
          ELSE initPc' = "fetch" /\ ui' = ui
  /\ UNCHANGED <<eval, envVars, credentials, databaseSchema, refreshShown,
                 prefVars, nQueries, modeVars, formVars, submitLabel,
                 saveVars, aiVars, refreshPc, modalVars, pendingRenders,
                 callVars, nActs>>
  /\ StaysFresh

\* Promise.all([getTabInfo, loadApiKey, loadCachedSchema]) settled.  With a
\* cached schema the preferences are loaded and the row lookup starts;
\* without one getDatabase() is sent.
InitJoinOf(tabs, keys) ==
  /\ initPc = "join"
  /\ \E tab \in tabs, key \in keys :
       LET cached == loadCachedSchema(cache, DatabaseId) IN
         /\ tabInfo' = tab
         /\ hasOpenAI' = key
         /\ cachedSchema' = cached
         /\ IF cached # NoSchema
            THEN /\ databaseSchema' = cached
                 /\ refreshShown' = TRUE
                 /\ hiddenFields' = loadHiddenFields(storedHidden, hiddenFields)
                 /\ fieldOrder' = storedOrder
                 /\ initPc' = "lookup1"
                 /\ nQueries' = IF needsQuery(cached, tab)
                                THEN nQueries + 1 ELSE nQueries
            ELSE /\ UNCHANGED <<databaseSchema, refreshShown, prefVars,
                                nQueries>>
                 /\ initPc' = "fetch"
  /\ UNCHANGED <<eval, envVars, credentials, ui, modeVars, formVars, submitLabel,
                 saveVars, aiVars, refreshPc, modalVars, pendingRenders,
                 callVars, nActs>>
  /\ StaysFresh

InitJoin == InitJoinOf(AllTabs, BOOLEAN)

\* Cached path: checkForExistingEntry() settled; the form is rendered from
\* the cached schema and shown, then getDatabase() is sent.
InitLookup1 ==
  /\ initPc = "lookup1"
  /\ \E c \in checkForExistingEntry(databaseSchema, tabInfo, existingPageId,
                                    existingPageData, store) :
       /\ existingPageId' = c.id
       /\ existingPageData' = c.data
       /\ lastLookup' = c.how
       /\ SetForm(renderForm(databaseSchema, tabInfo, hiddenFields,
                             fieldOrder, c.id, c.data))
       /\ submitLabel' = updateSubmitButton(c.id)
  /\ ui' = "form"
  /\ aiShown' = (aiShown \/ hasOpenAI)
  /\ initPc' = "fetch"
  /\ fresh' = TRUE
  /\ UNCHANGED <<eval, envVars, credentials, cachedSchema, schemaVars, prefVars,
                 saveVars, aiPc, bgReq, aiOutcome, aiReply, aiPrompt,
                 refreshVars,
                 modalVars, pendingRenders, callVars, countVars>>

InitFetch_alwaysChanged ==
  /\ initPc = "fetch"
  /\ \E ok \in BOOLEAN :
       IF ok
       THEN LET freshSchema == dbSchema
                schemaChanged == TRUE
            IN /\ cache' = cacheSchema(freshSchema, DatabaseId)
               /\ IF schemaChanged
                  THEN /\ databaseSchema' = freshSchema
                       /\ initPc' = "cacheWrite"
                       /\ UNCHANGED refreshShown
                  ELSE /\ UNCHANGED databaseSchema
                       /\ refreshShown' = FALSE
                       /\ initPc' = "done"
               /\ UNCHANGED ui
       ELSE /\ UNCHANGED <<cache, databaseSchema, refreshShown>>
            /\ IF cachedSchema # NoSchema
               THEN initPc' = "done" /\ UNCHANGED ui
               ELSE initPc' = "failed" /\ ui' = "error"
  /\ UNCHANGED <<eval, dbSchema,
                 credsStored, storedHidden, storedOrder, store, credentials,
                 cachedSchema, tabInfo, hasOpenAI, prefVars, modeVars,
                 formVars, submitLabel, saveVars, aiVars, refreshPc,
                 modalVars, pendingRenders, callVars, countVars>>
  /\ StaysFresh

\* getDatabase() settled.
InitFetch ==
  /\ initPc = "fetch"
  /\ \E ok \in BOOLEAN :
       IF ok
       THEN LET freshSchema == dbSchema
                schemaChanged == databaseSchema = NoSchema
                                 \/ databaseSchema # freshSchema
            IN /\ cache' = cacheSchema(freshSchema, DatabaseId)
               /\ IF schemaChanged
                  THEN /\ databaseSchema' = freshSchema
                       /\ initPc' = "cacheWrite"
                       /\ UNCHANGED refreshShown
                  ELSE /\ UNCHANGED databaseSchema
                       /\ refreshShown' = FALSE
                       /\ initPc' = "done"
               /\ UNCHANGED ui
       ELSE /\ UNCHANGED <<cache, databaseSchema, refreshShown>>
            /\ IF cachedSchema # NoSchema
               THEN initPc' = "done" /\ UNCHANGED ui
               ELSE initPc' = "failed" /\ ui' = "error"
  /\ UNCHANGED <<eval, dbSchema,
                 credsStored, storedHidden, storedOrder, store, credentials,
                 cachedSchema, tabInfo, hasOpenAI, prefVars, modeVars,
                 formVars, submitLabel, saveVars, aiVars, refreshPc,
                 modalVars, pendingRenders, callVars, countVars>>
  /\ StaysFresh

\* The schema changed: cacheSchema() settled, the form is rendered from the
\* fresh schema and the row lookup starts again.
InitCacheWritten ==
  /\ initPc = "cacheWrite"
  /\ SetForm(renderForm(databaseSchema, tabInfo, hiddenFields, fieldOrder,
                        existingPageId, existingPageData))
  /\ nQueries' = IF needsQuery(databaseSchema, tabInfo)
                 THEN nQueries + 1 ELSE nQueries
  /\ initPc' = "relookup"
  /\ fresh' = TRUE
  /\ UNCHANGED <<eval, envVars, credentials, cachedSchema, ui, schemaVars, prefVars,
                 modeVars, submitLabel, saveVars, aiVars, refreshVars,
                 modalVars, pendingRenders, callVars, nActs>>

\* The second lookup settled: the form is rendered again.  Without a cached
\* schema init() goes on to load the preferences.
InitRelookup ==
  /\ initPc = "relookup"
  /\ \E c \in checkForExistingEntry(databaseSchema, tabInfo, existingPageId,
                                    existingPageData, store) :
       /\ existingPageId' = c.id
       /\ existingPageData' = c.data
       /\ lastLookup' = c.how
       /\ SetForm(renderForm(databaseSchema, tabInfo, hiddenFields,
                             fieldOrder, c.id, c.data))
       /\ submitLabel' = updateSubmitButton(c.id)
  /\ refreshShown' = FALSE
  /\ initPc' = IF cachedSchema = NoSchema THEN "prefs" ELSE "done"
  /\ fresh' = TRUE
  /\ UNCHANGED <<eval, envVars, credentials, cachedSchema, ui, schemaVars, prefVars,
                 saveVars, aiVars, refreshPc, modalVars, pendingRenders,
                 callVars, countVars>>

\* No cached schema: loadHiddenFields and loadFieldOrder settled, the row
\* is looked up once more.
InitPrefs ==
  /\ initPc = "prefs"
  /\ hiddenFields' = loadHiddenFields(storedHidden, hiddenFields)
  /\ fieldOrder' = storedOrder
  /\ nQueries' = IF needsQuery(databaseSchema, tabInfo)
                 THEN nQueries + 1 ELSE nQueries
  /\ initPc' = "lookup2"
  /\ UNCHANGED <<eval, envVars, credentials, cachedSchema, ui, schemaVars, modeVars,
                 formVars, submitLabel, saveVars, aiVars, refreshVars,
                 modalVars, pendingRenders, callVars, nActs>>
  /\ StaysFresh

\* No cached schema: the last lookup settled, the form is rendered and shown.
InitLookup2 ==
  /\ initPc = "lookup2"
  /\ \E c \in checkForExistingEntry(databaseSchema, tabInfo, existingPageId,
                                    existingPageData, store) :
       /\ existingPageId' = c.id
       /\ existingPageData' = c.data
       /\ lastLookup' = c.how
       /\ SetForm(renderForm(databaseSchema, tabInfo, hiddenFields,
                             fieldOrder, c.id, c.data))
       /\ submitLabel' = updateSubmitButton(c.id)
  /\ ui' = "form"
  /\ aiShown' = (aiShown \/ hasOpenAI)
  /\ initPc' = "done"
  /\ fresh' = TRUE
  /\ UNCHANGED <<eval, envVars, credentials, cachedSchema, schemaVars, prefVars,
                 saveVars, aiPc, bgReq, aiOutcome, aiReply, aiPrompt,
                 refreshVars,
                 modalVars, pendingRenders, callVars, countVars>>

(***************************************************************************)
(* Saving: handleSubmit, the quick-save message, the store's answer        *)
(***************************************************************************)
\* The id the store gives the next page it creates.
nextId(rows) ==
  NewIds[1 + Cardinality({i \in 1..Len(rows) : rows[i].id \in Range(NewIds)})]

\* The rows after the store carried out a call.
storeAfter(rows, req, newId) ==
  IF req.kind = "create"
  THEN Append(rows, [id |-> newId,
                     properties |->
                       storeApply(emptyRow(dbSchema), req.payload)])
  ELSE [i \in 1..Len(rows) |->
          IF rows[i].id = req.id
          THEN [rows[i] EXCEPT !.properties = storeApply(@, req.payload)]
          ELSE rows[i]]

saveCall_alwaysCreate(pageId, groups, values, hidden) ==
  [kind |-> "create",
   id |-> pageId,
   payload |-> buildPayload(groups, values, hidden)]

\* The create or update call a save makes for the current form and mode.
saveCall(pageId, groups, values, hidden) ==
  [kind |-> IF pageId # null THEN "update" ELSE "create",
   id |-> pageId,
   payload |-> buildPayload(groups, values, hidden)]

recordCall(req, source, values) ==
  [kind |-> req.kind, id |-> req.id, payload |-> req.payload,
   source |-> source, held |-> existingPageId, hidden |-> hiddenFields,
   after |-> sessionCreated, groups |-> formGroups, values |-> values]

\* The call reaches the store when the session has credentials.  Without
\* them createPage throws on credentials.databaseId, and updatePage has
\* NotionAPI.request load them, which fails when none are stored.
canSend(pageId) == credentials \/ (pageId # null /\ credsStored)

\* handleSubmit up to its await.  When the call throws, handleSubmit
\* reports the error and enables the buttons again.
handleSubmit(source) ==
  LET req == saveCall(existingPageId, formGroups, formValue, hiddenFields)
  IN IF canSend(existingPageId)
     THEN /\ credentials' = TRUE
          /\ saveDisabled' = TRUE
          /\ submitReq' = req
          /\ submitOutcome' = "none"
          /\ lastCall' = recordCall(req, source, formValue)
          /\ nCalls' = nCalls + 1
          /\ UNCHANGED sessionCreated
     ELSE /\ saveDisabled' = FALSE
          /\ submitOutcome' = "error"
          /\ UNCHANGED <<credentials, submitReq, callVars>>

\* A click on the submit or the quick-save button of the shown form.  The
\* browser does not submit a form whose required title input is empty.
SubmitClick ==
  /\ nActs < MaxActs
  /\ ui = "form" /\ ~customizeOpen /\ aiPc # "modal"
  /\ ~saveDisabled
  /\ \A n \in Range(formGroups) : TypeOf(n) = "title" => formValue[n] # ""
  /\ handleSubmit("button")
  /\ nActs' = nActs + 1
  /\ UNCHANGED <<eval, envVars, initPc, cachedSchema, ui, schemaVars, prefVars,
                 modeVars, formVars, submitLabel, aiVars, refreshVars,
                 modalVars, pendingRenders, nQueries>>
  /\ StaysFresh

\* The TRIGGER_QUICK_SAVE message: with the quick-save button enabled the
\* form is shown and a submit event is dispatched.
TriggerQuickSave ==
  /\ nActs < MaxActs
  /\ ~saveDisabled
  /\ ui' = "form"
  /\ handleSubmit("shortcut")
  /\ nActs' = nActs + 1
  /\ UNCHANGED <<eval, envVars, initPc, cachedSchema, schemaVars, prefVars,
                 modeVars, formVars, submitLabel, aiVars, refreshVars,
                 modalVars, pendingRenders, nQueries>>
  /\ StaysFresh

SubmitResponse_keepDisabled ==
  /\ submitReq.kind # "none"
  /\ \E ok \in BOOLEAN :
       IF ok
       THEN /\ store' = storeAfter(store, submitReq, nextId(store))
            /\ sessionCreated' = IF submitReq.kind = "create"
                                 THEN nextId(store) ELSE sessionCreated
            /\ ui' = "success"
            /\ submitOutcome' = "saved"
       ELSE /\ submitOutcome' = "error"
            /\ UNCHANGED <<store, sessionCreated, ui>>
  /\ saveDisabled' = (submitOutcome' = "error")
  /\ submitReq' = NoReq
  /\ UNCHANGED <<eval, dbSchema,
                 credsStored, cache, storedHidden, storedOrder, initVars,
                 schemaVars, prefVars, modeVars, formVars, submitLabel,
                 aiVars, refreshVars, modalVars, pendingRenders, lastCall,
                 nCalls, countVars>>
  /\ StaysFresh

\* The call of handleSubmit settled.
SubmitResponse ==
  /\ submitReq.kind # "none"
  /\ \E ok \in BOOLEAN :
       IF ok
       THEN /\ store' = storeAfter(store, submitReq, nextId(store))
            /\ sessionCreated' = IF submitReq.kind = "create"
                                 THEN nextId(store) ELSE sessionCreated
            /\ ui' = "success"
            /\ submitOutcome' = "saved"
       ELSE /\ submitOutcome' = "error"
            /\ UNCHANGED <<store, sessionCreated, ui>>
  /\ saveDisabled' = FALSE
  /\ submitReq' = NoReq
  /\ UNCHANGED <<eval, dbSchema,
                 credsStored, cache, storedHidden, storedOrder, initVars,
                 schemaVars, prefVars, modeVars, formVars, submitLabel,
                 aiVars, refreshVars, modalVars, pendingRenders, lastCall,
                 nCalls, countVars>>
  /\ StaysFresh

\* "Add another" on the success panel: resetForm, then the form is shown.
AddAnother ==
  /\ nActs < MaxActs
  /\ ui = "success"
  /\ existingPageId' = null
  /\ existingPageData' = NoData
  /\ IF databaseSchema # NoSchema
     THEN /\ SetForm(renderForm(databaseSchema, tabInfo, hiddenFields,
                                fieldOrder, null, NoData))
          /\ submitLabel' = updateSubmitButton(null)
     ELSE UNCHANGED <<eval, formVars, submitLabel>>
  /\ ui' = "form"
  /\ sessionCreated' = null
  /\ nActs' = nActs + 1
  /\ fresh' = (databaseSchema # NoSchema)
  /\ UNCHANGED <<eval, envVars, initVars, schemaVars, prefVars, saveVars, aiVars,
                 refreshVars, modalVars, pendingRenders, lastCall, nCalls,
                 nQueries, lastLookup>>

\* The options page saves the credentials.
SaveSettings ==
  /\ nActs < MaxActs
  /\ ~credsStored
  /\ credsStored' = TRUE
  /\ nActs' = nActs + 1
  /\ UNCHANGED <<eval, dbSchema,
                 cache, storedHidden, storedOrder, store, initVars, ui,
                 schemaVars, prefVars, modeVars, formVars, submitLabel,
                 saveVars, aiVars, refreshVars, modalVars, pendingRenders,
                 callVars, nQueries>>
  /\ StaysFresh

(***************************************************************************)
(* The AI sub-flow: handleAiFill, handleAiInputSubmit, handleBackgroundSave *)
(***************************************************************************)
\* OpenAIHelper.buildPrompt: the field descriptions the user prompt lists,
\* one for every property of the schema that is not hidden, with the options
\* of a choice column.
buildPrompt_allFields(schema, hidden) ==
  [i \in 1..Len(Properties(schema)) |->
     LET prop == Properties(schema)[i]
     IN [name |-> prop.name, type |-> prop.type,
         required |-> prop.type = "title",
         options |-> IF prop.type \in {"select", "multi_select", "status"}
                     THEN prop.options ELSE <<>>]]

buildPrompt(schema, hidden) ==
  LET listed == SelectSeq(Properties(schema), LAMBDA c : c.name \notin hidden)
  IN [i \in 1..Len(listed) |->
        [name |-> listed[i].name, type |-> listed[i].type,
         required |-> listed[i].type = "title",
         options |-> IF listed[i].type \in {"select", "multi_select",
                                            "status"}
                     THEN listed[i].options ELSE <<>>]]

\* What openaiHelper.extractFields can settle with: a rejection, or the
\* entries of the JSON object the model returned.
AiFailure == [ok |-> FALSE, fields |-> <<>>]
AiObject(fields) == [ok |-> TRUE, fields |-> fields]
AiReplies ==
  {AiFailure,
   AiObject(<<>>),
   AiObject(<< <<"Name", Str("Edited")>>, <<"Location", Str("remote")>> >>),
   AiObject(<< <<"Location", Str("Berlin")>>,
               <<"Tags", List(<<"go", "Rust">>, "go,Rust")>> >>),
   AiObject(<< <<"Name", Str("Edited")>>, <<"Location", Num>> >>),
   AiObject(<< <<"Location", Str("Berlin")>> >>)}

\* The TRIGGER_ADD_DETAILS message: the form is shown; 100 ms later the AI
\* button, when it is shown and enabled, is clicked.
TriggerAddDetails ==
  /\ nActs < MaxActs
  /\ ui' = "form"
  /\ aiPc' = IF aiShown /\ aiPc \in {"idle", "modal"}
                /\ databaseSchema # NoSchema
             THEN "modal" ELSE aiPc
  /\ nActs' = nActs + 1
  /\ UNCHANGED <<eval, envVars, initVars, schemaVars, prefVars, modeVars, formVars,
                 submitLabel, saveVars, aiShown, bgReq, aiOutcome, aiReply,
                 aiPrompt,
                 refreshVars, modalVars, pendingRenders, callVars, nQueries>>
  /\ StaysFresh

\* A click on the AI button: openAiInputModal.
AiClick ==
  /\ nActs < MaxActs
  /\ ui = "form" /\ ~customizeOpen
  /\ aiShown /\ aiPc = "idle"
  /\ databaseSchema # NoSchema
  /\ aiPc' = "modal"
  /\ nActs' = nActs + 1
  /\ UNCHANGED <<eval, envVars, initVars, ui, schemaVars, prefVars, modeVars,
                 formVars, submitLabel, saveVars, aiShown, bgReq, aiOutcome,
                 aiReply, aiPrompt, refreshVars, modalVars, pendingRenders,
                 callVars,
                 nQueries>>
  /\ StaysFresh

\* Cancel / close of the AI input modal.
AiCancel ==
  /\ nActs < MaxActs
  /\ aiPc = "modal"
  /\ aiPc' = "idle"
  /\ nActs' = nActs + 1
  /\ UNCHANGED <<eval, envVars, initVars, ui, schemaVars, prefVars, modeVars,
                 formVars, submitLabel, saveVars, aiShown, bgReq, aiOutcome,
                 aiReply, aiPrompt, refreshVars, modalVars, pendingRenders,
                 callVars,
                 nQueries>>
  /\ StaysFresh

\* handleAiInputSubmit up to `await openaiHelper.extractFields`: the modal
\* closes and the AI button is disabled.
AiSubmit ==
  /\ nActs < MaxActs
  /\ aiPc = "modal"
  /\ aiPc' = "request"
  /\ aiOutcome' = "none"
  /\ aiPrompt' = buildPrompt(databaseSchema, hiddenFields)
  /\ nActs' = nActs + 1
  /\ UNCHANGED <<eval, envVars, initVars, ui, schemaVars, prefVars, modeVars,
                 formVars, submitLabel, saveVars, aiShown, bgReq, aiReply,
                 refreshVars, modalVars, pendingRenders, callVars, nQueries>>
  /\ StaysFresh

\* extractFields settled: the fill loop runs; with a field filled
\* handleBackgroundSave builds the payload and sends the call.
AiResponseOf(replies) ==
  /\ aiPc = "request"
  /\ \E reply \in replies :
       LET r == fillLoop(reply.fields, 1, formGroups, formValue, formTags, 0)
           req == saveCall(existingPageId, formGroups, r.values, hiddenFields)
       IN /\ aiReply' = reply
          /\ UNCHANGED aiPrompt
          /\ IF ~reply.ok
             THEN /\ aiOutcome' = "error"
                  /\ aiPc' = "idle"
                  /\ UNCHANGED <<formValue, formTags, bgReq, lastCall, nCalls,
                                 credentials>>
             ELSE /\ formValue' = r.values
                  /\ formTags' = r.tags
                  /\ IF r.threw
                     THEN /\ aiOutcome' = "error"
                          /\ aiPc' = "idle"
                          /\ UNCHANGED <<bgReq, lastCall, nCalls, credentials>>
                     ELSE IF r.filledCount = 0
                     THEN /\ aiOutcome' = "nothing"
                          /\ aiPc' = "idle"
                          /\ UNCHANGED <<bgReq, lastCall, nCalls, credentials>>
                     ELSE IF canSend(existingPageId)
                     THEN /\ aiOutcome' = "saving"
                          /\ aiPc' = "saving"
                          /\ bgReq' = req
                          /\ lastCall' = recordCall(req, "ai", r.values)
                          /\ nCalls' = nCalls + 1
                          /\ credentials' = TRUE
                     ELSE /\ aiOutcome' = "saveFailed"
                          /\ aiPc' = "idle"
                          /\ UNCHANGED <<bgReq, lastCall, nCalls, credentials>>
  /\ UNCHANGED <<eval, envVars, initPc, cachedSchema, ui, schemaVars, prefVars,
                 modeVars, formGroups, banner, hiddenList, submitLabel,
                 saveVars, aiShown, refreshVars, modalVars, pendingRenders,
                 sessionCreated, countVars>>
  /\ StaysFresh

AiResponse == AiResponseOf(AiReplies)

\* The call of handleBackgroundSave settled.
BgSaveResponse ==
  /\ aiPc = "saving"
  /\ \E ok \in BOOLEAN :
       IF ok
       THEN /\ store' = storeAfter(store, bgReq, nextId(store))
            /\ existingPageId' = IF bgReq.kind = "create"
                                 THEN nextId(store) ELSE existingPageId
            /\ sessionCreated' = IF bgReq.kind = "create"
                                 THEN nextId(store) ELSE sessionCreated
            /\ submitLabel' = updateSubmitButton(existingPageId')
            /\ aiOutcome' = "saved"
       ELSE /\ aiOutcome' = "saveFailed"
            /\ UNCHANGED <<store, existingPageId, sessionCreated,
                           submitLabel>>
  /\ aiPc' = "idle"
  /\ bgReq' = NoReq
  /\ UNCHANGED <<eval, dbSchema,
                 credsStored, cache, storedHidden, storedOrder, initVars, ui,
                 schemaVars, prefVars, existingPageData, formVars, saveVars,
                 aiShown, aiReply, aiPrompt, refreshVars, modalVars,
                 pendingRenders,
                 lastCall, nCalls, countVars, lastLookup>>
  /\ StaysFresh

(***************************************************************************)
(* The user edits the form                                                 *)
(***************************************************************************)
\* The values a user can give the input of a group.
editChoices(n) ==
  CASE TypeOf(n) \in {"title", "url"} -> {"", "Edited"}
    [] TypeOf(n) = "select" -> {""} \cup Range(ColumnOf(n).options)
    [] TypeOf(n) = "checkbox" -> BOOLEAN
    [] OTHER -> {}

EditField ==
  /\ nActs < MaxActs
  /\ ui = "form" /\ ~customizeOpen /\ aiPc # "modal"
  /\ \E i \in 1..Len(formGroups) :
       LET n == formGroups[i] IN
         IF TypeOf(n) = "multi_select"
         THEN \E o \in Range(ColumnOf(n).options) :
                \* a click on a tag toggles it; updateMultiSelectValue
                LET selected == IF o \in formTags[n]
                                THEN formTags[n] \ {o}
                                ELSE formTags[n] \cup {o}
                IN /\ formTags' = [formTags EXCEPT ![n] = selected]
                   /\ formValue' = [formValue EXCEPT ![n] =
                                      selectedValues(n, selected)]
         ELSE \E v \in editChoices(n) :
                /\ v # formValue[n]
                /\ formValue' = [formValue EXCEPT ![n] = v]
                /\ UNCHANGED formTags
  /\ nActs' = nActs + 1
  /\ UNCHANGED <<eval, envVars, initVars, ui, schemaVars, prefVars, modeVars,
                 formGroups, banner, hiddenList, submitLabel, saveVars,
                 aiVars, refreshVars, modalVars, pendingRenders, callVars,
                 nQueries>>
  /\ StaysFresh

(***************************************************************************)
(* Hiding, unhiding and ordering fields                                    *)
(***************************************************************************)
Remove(seq, n) == SelectSeq(seq, LAMBDA x : x # n)

\* toggleFieldVisibility(fieldName) on hiddenFields and fieldOrder: a hidden
\* field is shown and, when the order does not hold it, put at its end; a
\* shown field is hidden and taken out of the order.
toggleFieldVisibility(fieldName, hidden, order) ==
  IF fieldName \in hidden
  THEN [hidden |-> hidden \ {fieldName},
        order |-> IF fieldName \in Range(order) THEN order
                  ELSE Append(order, fieldName)]
  ELSE [hidden |-> hidden \cup {fieldName},
        order |-> Remove(order, fieldName)]

\* toggleFieldVisibility up to `await saveHiddenFields()`: the hide button
\* of a rendered group or the unhide button of a listed hidden field.
ToggleFieldVisibility ==
  /\ nActs < MaxActs
  /\ ui = "form" /\ ~customizeOpen /\ aiPc # "modal"
  /\ databaseSchema # NoSchema
  /\ \E fieldName \in Range(formGroups) \cup hiddenList :
       /\ hiddenFields' =
            toggleFieldVisibility(fieldName, hiddenFields, fieldOrder).hidden
       /\ fieldOrder' =
            toggleFieldVisibility(fieldName, hiddenFields, fieldOrder).order
       /\ storedOrder' = IF fieldName \in hiddenFields
                            /\ fieldName \in Range(fieldOrder)
                         THEN storedOrder ELSE fieldOrder'
       /\ storedHidden' = Some(hiddenFields')
  /\ pendingRenders' = pendingRenders + 1
  /\ nActs' = nActs + 1
  /\ UNCHANGED <<eval, dbSchema,
                 credsStored, cache, store, initVars, ui, schemaVars,
                 modeVars, formVars, submitLabel, saveVars, aiVars,
                 refreshVars, modalVars, callVars, nQueries>>
  /\ StaysFresh

\* toggleFieldVisibility after its awaits: the form is rendered again.
ToggleRendered ==
  /\ pendingRenders > 0
  /\ SetForm(renderForm(databaseSchema, tabInfo, hiddenFields, fieldOrder,
                        existingPageId, existingPageData))
  /\ pendingRenders' = pendingRenders - 1
  /\ fresh' = TRUE
  /\ UNCHANGED <<eval, envVars, initVars, ui, schemaVars, prefVars, modeVars,
                 submitLabel, saveVars, aiVars, refreshVars, modalVars,
                 callVars, countVars>>

\* The items renderCustomizeFields lists, in order.
renderCustomizeFields(schema, order) ==
  LET properties == Properties(schema)
      fromOrder == SelectSeq(order, LAMBDA n : n \in SchemaNames(schema))
      others == SelectSeq(properties,
                  LAMBDA c : c.name \notin Range(fromOrder)
                             /\ c.type \in DOMAIN TYPE_PRIORITY)
      supported == SelectSeq(properties,
                     LAMBDA c : c.type \in DOMAIN TYPE_PRIORITY)
  IN IF Len(order) > 0
     THEN fromOrder \o NamesOf(others)
     ELSE NamesOf(sortByPriority(supported, 1))

OpenCustomize ==
  /\ nActs < MaxActs
  /\ ui = "form" /\ ~customizeOpen /\ aiPc # "modal"
  /\ databaseSchema # NoSchema
  /\ customizeOpen' = TRUE
  /\ customizeItems' = renderCustomizeFields(databaseSchema, fieldOrder)
  /\ nActs' = nActs + 1
  /\ UNCHANGED <<eval, envVars, initVars, ui, schemaVars, prefVars, modeVars,
                 formVars, submitLabel, saveVars, aiVars, refreshVars,
                 pendingRenders, callVars, nQueries>>
  /\ StaysFresh

CloseCustomize ==
  /\ nActs < MaxActs
  /\ customizeOpen
  /\ customizeOpen' = FALSE
  /\ nActs' = nActs + 1
  /\ UNCHANGED <<eval, envVars, initVars, ui, schemaVars, prefVars, modeVars,
                 formVars, submitLabel, saveVars, aiVars, refreshVars,
                 customizeItems, pendingRenders, callVars, nQueries>>
  /\ StaysFresh

\* moveField: the item changes place with its neighbour.
moveField(items, i, j) ==
  [k \in 1..Len(items) |->
     IF k = i THEN items[j] ELSE IF k = j THEN items[i] ELSE items[k]]

MoveField ==
  /\ nActs < MaxActs
  /\ customizeOpen
  /\ \E i \in 1..Len(customizeItems), direction \in {"up", "down"} :
       LET newIndex == IF direction = "up" THEN i - 1 ELSE i + 1 IN
         /\ newIndex >= 1 /\ newIndex <= Len(customizeItems)
         /\ customizeItems' = moveField(customizeItems, i, newIndex)
  /\ nActs' = nActs + 1
  /\ UNCHANGED <<eval, envVars, initVars, ui, schemaVars, prefVars, modeVars,
                 formVars, submitLabel, saveVars, aiVars, refreshVars,
                 customizeOpen, pendingRenders, callVars, nQueries>>
  /\ StaysFresh

\* toggleFieldInModal: only the in-memory set changes.
ToggleFieldInModal ==
  /\ nActs < MaxActs
  /\ customizeOpen
  /\ \E i \in 1..Len(customizeItems) :
       LET fieldName == customizeItems[i] IN
         hiddenFields' = IF fieldName \in hiddenFields
                         THEN hiddenFields \ {fieldName}
                         ELSE hiddenFields \cup {fieldName}
  /\ nActs' = nActs + 1
  /\ UNCHANGED <<eval, envVars, initVars, ui, schemaVars, fieldOrder, modeVars,
                 formVars, submitLabel, saveVars, aiVars, refreshVars,
                 modalVars, pendingRenders, callVars, nQueries>>
  /\ StaysFresh

\* saveCustomizeOrder: the order of the items and the hidden set are saved,
\* the form is rendered, the modal closes.
SaveCustomizeOrder ==
  /\ nActs < MaxActs
  /\ customizeOpen
  /\ fieldOrder' = customizeItems
  /\ storedOrder' = customizeItems
  /\ storedHidden' = Some(hiddenFields)
  /\ SetForm(renderForm(databaseSchema, tabInfo, hiddenFields,
                        customizeItems, existingPageId, existingPageData))
  /\ customizeOpen' = FALSE
  /\ nActs' = nActs + 1
  /\ fresh' = TRUE
  /\ UNCHANGED <<eval, dbSchema,
                 credsStored, cache, store, initVars, ui, schemaVars,
                 hiddenFields, modeVars, submitLabel, saveVars, aiVars,
                 refreshVars, customizeItems, pendingRenders, callVars,
                 nQueries>>

(***************************************************************************)
(* refreshSchema()                                                         *)
(***************************************************************************)
RefreshClick ==
  /\ nActs < MaxActs
  /\ refreshShown /\ refreshPc = "idle"
  /\ ~customizeOpen /\ aiPc # "modal"
  /\ refreshPc' = "fetch"
  /\ nActs' = nActs + 1
  /\ UNCHANGED <<eval, envVars, initVars, ui, schemaVars, prefVars, modeVars,
                 formVars, submitLabel, saveVars, aiVars, refreshShown,
                 modalVars, pendingRenders, callVars, nQueries>>
  /\ StaysFresh

\* getDatabase() settled: on success the schema is cached and taken, the
\* preferences are loaded and the row lookup starts.
RefreshFetched ==
  /\ refreshPc = "fetch"
  /\ \E ok \in BOOLEAN :
       IF ok
       THEN /\ cache' = cacheSchema(dbSchema, DatabaseId)
            /\ databaseSchema' = dbSchema
            /\ hiddenFields' = loadHiddenFields(storedHidden, hiddenFields)
            /\ fieldOrder' = storedOrder
            /\ nQueries' = IF needsQuery(dbSchema, tabInfo)
                           THEN nQueries + 1 ELSE nQueries
            /\ refreshPc' = "lookup"
       ELSE /\ refreshPc' = "idle"
            /\ UNCHANGED <<cache, databaseSchema, prefVars, nQueries>>
  /\ UNCHANGED <<eval, dbSchema,
                 credsStored, storedHidden, storedOrder, store, initVars, ui,
                 tabInfo, hasOpenAI, modeVars, formVars, submitLabel,
                 saveVars, aiVars, refreshShown, modalVars, pendingRenders,
                 callVars, nActs>>
  /\ StaysFresh

\* checkForExistingEntry() settled: the form is rendered, the refresh
\* button is hidden.
RefreshLookup ==
  /\ refreshPc = "lookup"
  /\ \E c \in checkForExistingEntry(databaseSchema, tabInfo, existingPageId,
                                    existingPageData, store) :
       /\ existingPageId' = c.id
       /\ existingPageData' = c.data
       /\ lastLookup' = c.how
       /\ SetForm(renderForm(databaseSchema, tabInfo, hiddenFields,
                             fieldOrder, c.id, c.data))
       /\ submitLabel' = updateSubmitButton(c.id)
  /\ refreshShown' = FALSE
  /\ refreshPc' = "idle"
  /\ fresh' = TRUE
  /\ UNCHANGED <<eval, envVars, initVars, ui, schemaVars, prefVars, saveVars,
                 aiVars, modalVars, pendingRenders, callVars, countVars>>

(***************************************************************************)
(* The session                                                             *)
(***************************************************************************)
Next ==
  \/ InitCredentials \/ InitJoin \/ InitLookup1 \/ InitFetch
  \/ InitCacheWritten \/ InitRelookup \/ InitPrefs \/ InitLookup2
  \/ SubmitClick \/ TriggerQuickSave \/ SubmitResponse \/ AddAnother
  \/ SaveSettings
  \/ TriggerAddDetails \/ AiClick \/ AiCancel \/ AiSubmit \/ AiResponse
  \/ BgSaveResponse
  \/ EditField
  \/ ToggleFieldVisibility \/ ToggleRendered
  \/ OpenCustomize \/ CloseCustomize \/ MoveField \/ ToggleFieldInModal
  \/ SaveCustomizeOrder
  \/ RefreshClick \/ RefreshFetched \/ RefreshLookup

Spec == Init /\ [][Next]_vars

(***************************************************************************)
(* Sessions on a part of the environment                                   *)
(***************************************************************************)
InitSteps(tabs, keys) ==
  \/ InitCredentials \/ InitJoinOf(tabs, keys) \/ InitLookup1 \/ InitFetch
  \/ InitCacheWritten \/ InitRelookup \/ InitPrefs \/ InitLookup2

\* init() when the cached schema is the schema of the database.
InitCachedSteps(tabs, keys) ==
  \/ InitCredentials \/ InitJoinOf(tabs, keys) \/ InitLookup1 \/ InitFetch

\* Saving: the page has a stored row or none; every way the session gets,
\* keeps or drops a page id.
InitSave ==
  InitOf({TRUE}, {NoCache, FreshCache}, {NoPrefs}, {<<>>, <<FilledRow>>})
NextSave ==
  \/ InitSteps({TabPage}, {TRUE})
  \/ SubmitClick \/ TriggerQuickSave \/ SubmitResponse \/ AddAnother
  \/ AiClick \/ AiSubmit
  \/ AiResponseOf({AiFailure,
                   AiObject(<< <<"Name", Str("Edited")>> >>)})
  \/ BgSaveResponse
  \/ RefreshClick \/ RefreshFetched \/ RefreshLookup
SpecSave == InitSave /\ [][NextSave]_vars

\* Rendering: a stored row with or without values, under both preferences,
\* with no cached schema or an outdated one; the handlers
\* that render the form or change what the next rendering shows.
InitRender ==
  InitOf({TRUE}, {NoCache, StaleCache}, AllPrefs,
         {<<FilledRow>>, <<BlankRow>>})
NextRender ==
  \/ InitSteps({TabPage}, {FALSE})
  \/ ToggleFieldVisibility \/ ToggleRendered
  \/ OpenCustomize \/ CloseCustomize \/ MoveField \/ ToggleFieldInModal
  \/ SaveCustomizeOrder
  \/ RefreshClick \/ RefreshFetched \/ RefreshLookup
SpecRender == InitRender /\ [][NextRender]_vars

\* Hidden fields and payloads: a stored row with values, a stored hidden
\* field; fields are hidden and shown in the form and in the customize
\* modal, the AI fills fields, and every kind of save builds a payload.
InitPayload ==
  InitOf({TRUE}, {FreshCache}, {SavedPrefs}, {<<FilledRow>>})
NextPayload ==
  \/ InitCachedSteps({TabPage}, {TRUE})
  \/ ToggleFieldVisibility \/ ToggleRendered
  \/ OpenCustomize \/ CloseCustomize \/ ToggleFieldInModal
  \/ SaveCustomizeOrder
  \/ AiClick \/ AiSubmit
  \/ AiResponseOf({AiObject(<< <<"Name", Str("Edited")>>,
                               <<"Location", Str("remote")>> >>)})
  \/ BgSaveResponse
  \/ SubmitClick \/ TriggerQuickSave \/ SubmitResponse
SpecPayload == InitPayload /\ [][NextPayload]_vars

\* Values and payloads: a page with tab signals and one without; the form
\* is edited or filled by the AI, and every kind of save builds a payload.
InitValues ==
  InitOf({TRUE}, {FreshCache}, {NoPrefs}, {<<FilledRow>>})
NextValues ==
  \/ InitCachedSteps({TabPage, TabFallback}, {TRUE})
  \/ EditField
  \/ AiClick \/ AiSubmit
  \/ AiResponseOf({AiObject(<< <<"Name", Str("Edited")>>,
                               <<"Location", Str("remote")>> >>)})
  \/ BgSaveResponse
  \/ SubmitClick \/ TriggerQuickSave \/ SubmitResponse
SpecValues == InitValues /\ [][NextValues]_vars

\* The AI sub-flow: every reply of the model, on a new entry and on a stored
\* row, with the form edited or a field hidden around it.
InitAi ==
  InitOf({TRUE}, {FreshCache}, {NoPrefs}, {<<>>, <<FilledRow>>})
NextAi ==
  \/ InitCachedSteps({TabPage}, {TRUE})
  \/ TriggerAddDetails \/ AiClick \/ AiCancel \/ AiSubmit
  \/ AiResponse \/ BgSaveResponse
  \/ EditField
  \/ ToggleFieldVisibility \/ ToggleRendered
SpecAi == InitAi /\ [][NextAi]_vars

\* Opening the popup: with and without credentials, every cache entry, a
\* page with a stored row or none; the shortcut messages can arrive at any
\* time, the schema can be refreshed, the settings can be saved meanwhile.
InitOpen ==
  InitOf(BOOLEAN, AllCaches, {NoPrefs}, {<<>>, <<FilledRow>>})
NextOpen ==
  \/ InitSteps({TabPage, TabFallback}, {TRUE})
  \/ TriggerAddDetails \/ TriggerQuickSave \/ SubmitResponse
  \/ AiCancel
  \/ RefreshClick \/ RefreshFetched \/ RefreshLookup
  \/ SaveSettings
SpecOpen == InitOpen /\ [][NextOpen]_vars

\* A tracker with a status column and no row for the page: the popup opens
\* with or without the cached schema, the form is edited or left alone, and
\* it is submitted by the button or the shortcut.
InitScenario ==
  /\ SessionWith(TrackerSchema, {TRUE}, {NoCache, TrackerCache}, {NoPrefs},
                 {<<>>})
  /\ eval = NoEval
NextScenario ==
  \/ InitSteps({TabPage}, {FALSE})
  \/ EditField
  \/ SubmitClick \/ TriggerQuickSave \/ SubmitResponse
SpecScenario == InitScenario /\ [][NextScenario]_vars

\* The row lookup: a database with two url columns and rows that hold the
\* page's URL in one or the other, a database without a url column, and a
\* page without a URL; the form is saved by the button, the shortcut or the
\* AI sub-flow, and the schema is refreshed.
InitLookup ==
  /\ \/ SessionWith(LinksSchema, {TRUE}, {NoCache, LinksCache}, {NoPrefs},
                     {<<RowLinkOnly>>, <<RowLinkOnly, RowFirst, RowSecond>>})
     \/ SessionWith(PlainSchema, {TRUE}, {NoCache, PlainCache}, {NoPrefs},
                     {<<>>, <<PlainRow>>})
     \/ SessionWith(StoreSchema, {TRUE}, {NoCache, FreshCache}, {NoPrefs},
                     {<<FilledRow>>})
  /\ eval = NoEval
NextLookup ==
  \/ InitSteps({TabPage, TabFallback}, {TRUE})
  \/ SubmitClick \/ TriggerQuickSave \/ SubmitResponse
  \/ AiClick \/ AiSubmit
  \/ AiResponseOf({AiObject(<< <<"Name", Str("Edited")>> >>)})
  \/ BgSaveResponse
  \/ RefreshClick \/ RefreshFetched \/ RefreshLookup
SpecLookup == InitLookup /\ [][NextLookup]_vars

\* Start-up alone: no cached schema, the schema of the database or an
\* outdated one; a page with tab signals or without, an AI key or none, a
\* stored row or none; while init() runs the user edits the form.
InitStart ==
  InitOf({TRUE}, {NoCache, FreshCache, StaleCache}, {NoPrefs},
         {<<>>, <<FilledRow>>})
NextStart ==
  \/ InitSteps({TabPage, TabFallback}, BOOLEAN)
  \/ EditField
SpecStart == InitStart /\ [][NextStart]_vars

\* The fill loop on a form that already holds values: a stored row with a
\* selected tag or a new entry; the AI returns values that are in the option
\* lists, one that is not, and one in another letter case.
FillReplies ==
  {AiObject(<< <<"Name", Str("Edited")>>, <<"Location", Str("Remote")>>,
               <<"Tags", List(<<"SQL">>, "SQL")>> >>),
   AiObject(<< <<"Location", Str("Berlin")>>,
               <<"Tags", List(<<"Go", "SQL">>, "Go,SQL")>> >>),
   AiObject(<< <<"URL", Str("")>>, <<"Location", Str("remote")>> >>)}
InitFill ==
  InitOf({TRUE}, {FreshCache}, {NoPrefs}, {<<>>, <<FilledRow>>})
NextFill ==
  \/ InitCachedSteps({TabPage}, {TRUE})
  \/ AiClick \/ AiSubmit \/ AiResponseOf(FillReplies) \/ BgSaveResponse
  \/ EditField
  \/ ToggleFieldVisibility \/ ToggleRendered
SpecFill == InitFill /\ [][NextFill]_vars

(***************************************************************************)
(* The library functions on their own: a value is serialized, stored and   *)
(* parsed back; a number field is read from what was typed into it         *)
(***************************************************************************)
sessionVars == <<envVars, initVars, ui, schemaVars, prefVars, modeVars,
                 formVars, submitLabel, saveVars, aiVars, refreshVars,
                 modalVars, pendingRenders, callVars, countVars, fresh>>

\* The session has not started while a library function is evaluated.
NoSession == SessionOf({FALSE}, {NoCache}, {NoPrefs}, {<<>>})

\* The longest rich text of the model fills MaxRuns blocks.
MaxRuns == 3

\* A text of n characters, all different.
UniqueText(n) == [i \in 1..n |-> i]

RichLengths ==
  {0, 1, MAX_CHARS - 1, MAX_CHARS, MAX_CHARS + 1, 5000}
    \cup {k * MAX_CHARS : k \in 2..MaxRuns}

\* What can be typed into a number field.
NumberTexts ==
  { <<>>, <<"0">>, <<"4", "2">>, <<"-", "7">>, <<"3", ".", "5", "0">>,
    <<"0", "0", "7">>, <<".", "5">>, <<"a", "b", "c">>,
    <<"1", "2", "a", "b", "c">>, <<" ", "8">>, <<"+", "5">>, <<"5", ".">>,
    <<"-">>, <<"4", " ", "2">> }

\* The values of each type that a form field can hold.
WireValues(type) ==
  CASE type \in {"title", "select", "status"} -> {"", "Acme", "Remote", "Go"}
    [] type = "rich_text" -> {UniqueText(n) : n \in RichLengths}
    [] type = "url" -> {"", TabPage.url}
    [] type = "number" ->
         {parseFloat(t) : t \in {<<"0">>, <<"4", "2">>, <<"-", "7">>,
                                 <<"3", ".", "5">>}}
           \cup {JsNull, JsString(<<>>)}
    [] type = "checkbox" -> BOOLEAN
    [] type = "multi_select" ->
         {<<>>, <<"Go">>, <<"Go", "SQL">>, <<"SQL", "Go">>}
    [] type = "date" -> {"", "2026-01-15"}
    [] type = "email" -> {"", "a@b.test"}
    [] type = "phone_number" -> {"", "555-0100"}

WireStart(type, value) ==
  [fn |-> "wire", pc |-> "value", type |-> type, value |-> value,
   wire |-> None, stored |-> FALSE, out |-> None]

\* buildPayload hands the value of a field to the formatter of its type.
Serialize ==
  /\ eval.fn = "wire" /\ eval.pc = "value"
  /\ eval' = [eval EXCEPT !.pc = "wire",
                          !.wire = PropertyFormatters(eval.type, eval.value)]
  /\ UNCHANGED sessionVars

\* The store keeps the property and returns it with a later query.
StoreReturns ==
  /\ eval.fn = "wire" /\ eval.pc = "wire"
  /\ eval' = [eval EXCEPT !.stored = TRUE,
                          !.pc = "stored",
                          !.wire = storedValue(eval.type, eval.wire)]
  /\ UNCHANGED sessionVars

\* parseNotionPage hands the property to the parser of its type: the
\* property the store returned, or the formatter's output as it is.
Parse ==
  /\ eval.fn = "wire" /\ eval.pc \in {"wire", "stored"}
  /\ eval' = [eval EXCEPT !.pc = "parsed",
                          !.out = PropertyParsers(eval.type, eval.wire)]
  /\ UNCHANGED sessionVars

\* A valid floating-point number of HTML, without exponent: an optional
\* "-", then digits, or digits "." digits, or "." digits, and nothing else.
validFloat(cs) ==
  LET u == IF cs # <<>> /\ Head(cs) = "-" THEN Tail(cs) ELSE cs
      int == digitRun(u)
      rest == SubSeq(u, Len(int) + 1, Len(u))
  IN \/ (int # <<>> /\ rest = <<>>)
     \/ /\ rest # <<>> /\ Head(rest) = "."
        /\ Len(rest) > 1
        /\ digitRun(Tail(rest)) = Tail(rest)

\* The value of an <input type="number"> the text was typed into: the text
\* when it is a valid number, the empty string otherwise.
numberInputValue(typed) == IF validFloat(typed) THEN typed ELSE <<>>

getFieldValue_number_parseAll(val) == parseFloat(val)

\* getFieldValue, case 'number': `val !== '' ? parseFloat(val) : null`.
getFieldValue_number(val) == IF val # <<>> THEN parseFloat(val) ELSE JsNull

\* buildPayload for one number group: the entry of the payload, or None
\* when the field is left out.
numberEntry(value) ==
  IF value # JsString(<<>>) /\ value # JsNull
  THEN Some(PropertyFormatters_number(value)) ELSE None

NumberStart(typed) ==
  [fn |-> "number", pc |-> "typed", typed |-> typed, val |-> <<>>,
   value |-> JsNull, entry |-> None]

\* renderNumberField's input holds what was typed.
NumberInput ==
  /\ eval.fn = "number" /\ eval.pc = "typed"
  /\ eval' = [eval EXCEPT !.pc = "input",
                          !.val = numberInputValue(eval.typed)]
  /\ UNCHANGED sessionVars

GetFieldValue ==
  /\ eval.fn = "number" /\ eval.pc = "input"
  /\ eval' = [eval EXCEPT !.pc = "read",
                          !.value = getFieldValue_number(eval.val)]
  /\ UNCHANGED sessionVars

BuildEntry ==
  /\ eval.fn = "number" /\ eval.pc = "read"
  /\ eval' = [eval EXCEPT !.pc = "built", !.entry = numberEntry(eval.value)]
  /\ UNCHANGED sessionVars

WireTypes == DOMAIN TYPE_PRIORITY

InitWire ==
  /\ NoSession
  /\ \/ \E type \in WireTypes : \E value \in WireValues(type) :
          eval = WireStart(type, value)
     \/ \E typed \in NumberTexts : eval = NumberStart(typed)
NextWire ==
  \/ Serialize \/ StoreReturns \/ Parse
  \/ NumberInput \/ GetFieldValue \/ BuildEntry
SpecWire == InitWire /\ [][NextWire]_vars

(***************************************************************************)
(* The tab title (background/service-worker.js, getActiveTabInfo)          *)
(***************************************************************************)
\* The titles of the model have at most MaxTitleLen characters.
MaxTitleLen == 5

\* " | "
Separator == <<" ", "|", " ">>

\* The positions at which p occurs in cs.
Occurrences(cs, p) ==
  {i \in 1..(Len(cs) - Len(p) + 1) : SubSeq(cs, i, i + Len(p) - 1) = p}

\* String.prototype.split with a non-empty separator: the pieces between
\* the occurrences of the separator, found from left to right.
RECURSIVE split(_, _)
split(cs, sep) ==
  IF Occurrences(cs, sep) = {} THEN <<cs>>
  ELSE LET i == Min(Occurrences(cs, sep)) IN
         <<SubSeq(cs, 1, i - 1)>>
           \o split(SubSeq(cs, i + Len(sep), Len(cs)), sep)

titleParts_untrimmed(title) ==
  IF title # <<>> /\ includes(title, Separator)
  THEN LET parts == split(title, Separator) IN
         [roleName |-> parts[1], companyName |-> parts[2]]
  ELSE [roleName |-> title, companyName |-> <<>>]

\* getActiveTabInfo, "Parse LinkedIn-style titles": roleName and
\* companyName of a tab title.
titleParts(title) ==
  IF title # <<>> /\ includes(title, Separator)
  THEN LET parts == split(title, Separator) IN
         IF Len(parts) >= 2
         THEN [roleName |-> trim(parts[1]), companyName |-> trim(parts[2])]
         ELSE [roleName |-> title, companyName |-> <<>>]
  ELSE [roleName |-> title, companyName |-> <<>>]

LinkedInTitle ==
  <<"S","e","n","i","o","r"," ","E","n","g","i","n","e","e","r"," ","|"," ",
    "A","c","m","e"," ","C","o","r","p"," ","|"," ",
    "L","i","n","k","e","d","I","n">>

RECURSIVE TextsUpTo(_)
TextsUpTo(n) ==
  IF n = 0 THEN {<<>>}
  ELSE LET shorter == TextsUpTo(n - 1) IN
         shorter \cup {Append(t, c) : t \in shorter, c \in {"a", "b", " ", "|"}}

\* The titles a tab can have.
TabTitles == TextsUpTo(MaxTitleLen) \cup {LinkedInTitle}

\* The background script answers GET_TAB_INFO for the active tab.
GetActiveTabInfo ==
  /\ eval.fn = "tab" /\ eval.pc = "title"
  /\ eval' = [eval EXCEPT !.pc = "info", !.info = titleParts(eval.title)]
  /\ UNCHANGED sessionVars

InitTitle ==
  /\ NoSession
  /\ \E title \in TabTitles :
        eval = [fn |-> "tab", pc |-> "title", title |-> title,
                info |-> [roleName |-> <<>>, companyName |-> <<>>]]
NextTitle == GetActiveTabInfo
SpecTitle == InitTitle /\ [][NextTitle]_vars

(***************************************************************************)
(* The location matcher on its own                                         *)
(***************************************************************************)
\* The locations a page can give and the option lists a column can have.
LocationTexts ==
  {"", "  ", "Berlin", "Remote", "remote", "San Francisco", "SF", "Manila",
   "Remote - San Francisco Bay Area", "Portland, OR", "Austin, TX"}
LocationOptions ==
  { <<>>, <<"Remote", "San Francisco">>, <<"San Francisco", "Remote">>,
    <<"San Francisco Bay Area", "San">>, <<"San", "San Francisco Bay Area">>,
    <<"OR - Oregon", "Remote">>, <<"Texas (TX)">>, <<"Portland">>,
    <<"Berlin", "Remote">>, <<"SF", "Austin, TX">> }

\* renderSelectField asks for the option that matches the tab's location.
MatchLocation ==
  /\ eval.fn = "match" /\ eval.pc = "query"
  /\ eval' = [eval EXCEPT
                !.pc = "matched",
                !.out = findBestLocationMatch(eval.text, eval.options)]
  /\ UNCHANGED sessionVars

InitMatch ==
  /\ NoSession
  /\ \E text \in LocationTexts : \E options \in LocationOptions :
        eval = [fn |-> "match", pc |-> "query", text |-> text,
                options |-> options, out |-> null]
NextMatch == MatchLocation
SpecMatch == InitMatch /\ [][NextMatch]_vars

(***************************************************************************)
(* The AI response (lib/notion-api.js, OpenAIHelper.extractFields)         *)
(***************************************************************************)
\* The JSON objects of the model have at most MaxPairs members.
MaxPairs == 2

\* The character ` (a string cannot hold it).
Backtick == "U+0060"

Fence == <<Backtick, Backtick, Backtick>>

\* The character at position i of cs, "" past the end.
At(cs, i) == IF i \in 1..Len(cs) THEN cs[i] ELSE ""

\* content.match(/```(?:json)?\s*([\s\S]*?)```/): whether the expression
\* matches, and its group: the text after the leftmost opening fence (one
\* that has a closing fence after it), an optional "json" and white space,
\* up to the first closing fence.
codeBlock(content) ==
  LET fences == Occurrences(content, Fence)
      opens == {i \in fences : \E j \in fences : j >= i + 3}
  IN IF opens = {} THEN <<FALSE, <<>>>>
     ELSE LET i == Min(opens)
              json == /\ SubSeq(content, i + 3, i + 6) = <<"j", "s", "o", "n">>
                      /\ \E j \in fences : j >= i + 7
              start == skipSpaces(content, IF json THEN i + 7 ELSE i + 3)
              close == Min({j \in fences : j >= start})
          IN <<TRUE, SubSeq(content, start, close - 1)>>

\* `content = content.trim()`, then the code block's text, trimmed, when
\* the expression matches.
stripCodeBlock(content) ==
  LET codeBlockMatch == codeBlock(trim(content)) IN
    IF codeBlockMatch[1] THEN trim(codeBlockMatch[2]) ELSE trim(content)

ParseError == [ok |-> FALSE, fields |-> <<>>]

\* A JSON string without escapes that starts at position p: its text and
\* the position after its closing quote.
readString(cs, p) ==
  LET ends == {j \in (p + 1)..Len(cs) : cs[j] = "\""} IN
    IF At(cs, p) # "\"" \/ ends = {} THEN [ok |-> FALSE, text |-> <<>>, next |-> p]
    ELSE [ok |-> TRUE, text |-> SubSeq(cs, p + 1, Min(ends) - 1),
          next |-> Min(ends) + 1]

\* The end of an object: nothing but white space may follow.
parseEnd(cs, p, members) ==
  IF skipSpaces(cs, p) > Len(cs) THEN [ok |-> TRUE, fields |-> members]
  ELSE ParseError

\* The members of an object from position p on: "key": "value" pairs
\* separated by commas, up to the closing brace.
RECURSIVE parseMembers(_, _, _)
parseMembers(cs, p, members) ==
  LET key == readString(cs, p)
      colon == skipSpaces(cs, key.next)
      value == readString(cs, skipSpaces(cs, colon + 1))
      after == skipSpaces(cs, value.next)
      all == Append(members, <<key.text, value.text>>)
  IN IF ~key.ok \/ At(cs, colon) # ":" THEN ParseError
     ELSE IF ~value.ok THEN ParseError
     ELSE IF At(cs, after) = "}" THEN parseEnd(cs, after + 1, all)
     ELSE IF At(cs, after) = ","
          THEN parseMembers(cs, skipSpaces(cs, after + 1), all)
     ELSE ParseError

\* JSON.parse followed by the `typeof extracted !== 'object'` test, for
\* texts whose values are strings: the members of the object, or the
\* rejection of a text that is not a JSON object.
parseObject(cs) ==
  LET open == skipSpaces(cs, 1)
      first == skipSpaces(cs, open + 1)
  IN IF At(cs, open) # "{" THEN ParseError
     ELSE IF At(cs, first) = "}" THEN parseEnd(cs, first + 1, <<>>)
     ELSE parseMembers(cs, first, <<>>)

\* The texts of the string values the AI returns.
ValueTexts ==
  { <<>>, <<"b">>, <<Backtick>>, Fence, <<"x">> \o Fence,
    Fence \o <<"b">> \o Fence }

Keys == <<"a", "c", "e", "g">>

\* The JSON objects the AI returns: member i has the key Keys[i].
JsonObjects ==
  UNION {[1..n -> ValueTexts] : n \in 0..MaxPairs}

Quoted(text) == <<"\"">> \o text \o <<"\"">>

RECURSIVE memberTexts(_, _)
memberTexts(values, i) ==
  IF i > Len(values) THEN <<>>
  ELSE (IF i > 1 THEN <<",", " ">> ELSE <<>>)
         \o Quoted(<<Keys[i]>>) \o <<":">> \o Quoted(values[i])
         \o memberTexts(values, i + 1)

\* JSON.stringify of the object.
stringify(values) == <<"{">> \o memberTexts(values, 1) \o <<"}">>

\* What the completion service wraps the JSON text in.
Wrappings == {"bare", "json fence", "plain fence", "spaced json fence"}

wrap(how, text) ==
  CASE how = "bare" -> text
    [] how = "json fence" ->
         Fence \o <<"j", "s", "o", "n", " ">> \o text \o <<" ">> \o Fence
    [] how = "plain fence" -> Fence \o text \o Fence
    [] how = "spaced json fence" ->
         <<" ">> \o Fence \o <<"j", "s", "o", "n">> \o text \o Fence \o <<" ">>

fieldsOf(values) == [i \in 1..Len(values) |-> <<<<Keys[i]>>, values[i]>>]

\* extractFields, the response callback: the code block is unwrapped.
StripCodeBlock ==
  /\ eval.fn = "extract" /\ eval.pc = "content"
  /\ eval' = [eval EXCEPT !.pc = "stripped",
                          !.content = stripCodeBlock(eval.content)]
  /\ UNCHANGED sessionVars

\* extractFields, the response callback: the text is parsed and the
\* promise settles.
ParseContent ==
  /\ eval.fn = "extract" /\ eval.pc = "stripped"
  /\ eval' = [eval EXCEPT !.pc = "settled",
                          !.result = parseObject(eval.content)]
  /\ UNCHANGED sessionVars

InitExtract ==
  /\ NoSession
  /\ \E values \in JsonObjects : \E how \in Wrappings :
        eval = [fn |-> "extract", pc |-> "content", object |-> values,
                wrapping |-> how, content |-> wrap(how, stringify(values)),
                result |-> ParseError]
NextExtract == StripCodeBlock \/ ParseContent
SpecExtract == InitExtract /\ [][NextExtract]_vars

(***************************************************************************)
(* The page's location (background/service-worker.js,                      *)
(* extractLocationAndSelection)                                            *)
(***************************************************************************)
Max(S) == CHOOSE x \in S : \A y \in S : x >= y

IsUpper(c) == c \in DOMAIN UpperToLower
IsLower(c) == c \in Range(UpperToLower)

\* [a-z]+ from position i: the position after the run.  The run is always
\* the longest one: whatever follows it in the expressions below is a space,
\* a comma or an upper-case letter.
RECURSIVE lowerEnd(_, _)
lowerEnd(cs, i) == IF IsLower(At(cs, i)) THEN lowerEnd(cs, i + 1) ELSE i

\* [A-Z][a-z]+ at position i: the position after the word, or 0.
wordEnd(cs, i) ==
  IF IsUpper(At(cs, i)) /\ IsLower(At(cs, i + 1)) THEN lowerEnd(cs, i + 1)
  ELSE 0

\* (?:\s+[A-Z][a-z]+)* after a word that ends before j: every position at
\* which the group can stop.
RECURSIVE cityEnds(_, _)
cityEnds(cs, j) ==
  IF j = 0 THEN {}
  ELSE LET k == skipSpaces(cs, j)
       IN {j} \cup (IF k > j THEN cityEnds(cs, wordEnd(cs, k)) ELSE {})

\* ,\s*[A-Z]{2}\b  (or ,?\s*[A-Z]{2}\b) after a city that ends before j: the
\* position of the state code, or 0.
stateAfter(cs, j, commaOptional) ==
  LET c == IF At(cs, j) = "," THEN j + 1
           ELSE IF commaOptional THEN j ELSE 0
      k == skipSpaces(cs, c)
  IN IF c # 0 /\ IsUpper(At(cs, k)) /\ IsUpper(At(cs, k + 1))
        /\ ~IsWordChar(At(cs, k + 2))
     THEN k ELSE 0

\* The match of the city, state expression that starts at position i: the
\* groups are greedy, so the city is the longest one a state code follows.
cityStateAt(cs, i, commaOptional) ==
  LET ends == {j \in cityEnds(cs, wordEnd(cs, i)) :
                 stateAfter(cs, j, commaOptional) # 0}
  IN IF ends = {} THEN [found |-> FALSE, city |-> <<>>, state |-> <<>>,
                        next |-> i]
     ELSE LET j == Max(ends)
              k == stateAfter(cs, j, commaOptional)
          IN [found |-> TRUE, city |-> SubSeq(cs, i, j - 1),
              state |-> SubSeq(cs, k, k + 1), next |-> k + 2]

\* \b before an upper-case letter at position i.
wordStart(cs, i) == i = 1 \/ ~IsWordChar(At(cs, i - 1))

\* /\b([A-Z][a-z]+(?:\s+[A-Z][a-z]+)*),\s*([A-Z]{2})\b/g over the text, from
\* position i: the matched texts, in order.
RECURSIVE cityStateScan(_, _)
cityStateScan(cs, i) ==
  LET starts == {s \in i..Len(cs) :
                   wordStart(cs, s) /\ cityStateAt(cs, s, FALSE).found}
  IN IF starts = {} THEN <<>>
     ELSE LET s == Min(starts)
              m == cityStateAt(cs, s, FALSE)
          IN <<SubSeq(cs, s, m.next - 1)>> \o cityStateScan(cs, m.next)

\* First pass: /[A-Z][a-z]+(?:\s+[A-Z][a-z]+)*,\s*[A-Z]{2}\b/.test(loc)
cityStateTest(loc) ==
  \E i \in 1..Len(loc) : cityStateAt(loc, i, FALSE).found

\* Second pass: loc.match(/\b([A-Z][a-z]+(?:\s+[A-Z][a-z]+)*),?\s*([A-Z]{2})\b/)
cityStateMatch(loc) ==
  LET starts == {s \in 1..Len(loc) :
                   wordStart(loc, s) /\ cityStateAt(loc, s, TRUE).found}
  IN IF starts = {} THEN [found |-> FALSE, city |-> <<>>, state |-> <<>>,
                          next |-> 0]
     ELSE cityStateAt(loc, Min(starts), TRUE)

majorCities ==
  <<<<"N","e","w"," ","Y","o","r","k">>,
    <<"S","a","n"," ","F","r","a","n","c","i","s","c","o">>,
    <<"L","o","s"," ","A","n","g","e","l","e","s">>,
    <<"C","h","i","c","a","g","o">>,
    <<"B","o","s","t","o","n">>,
    <<"S","e","a","t","t","l","e">>,
    <<"A","u","s","t","i","n">>,
    <<"D","e","n","v","e","r">>,
    <<"P","o","r","t","l","a","n","d">>,
    <<"M","i","a","m","i">>,
    <<"A","t","l","a","n","t","a">>,
    <<"D","a","l","l","a","s">>,
    <<"H","o","u","s","t","o","n">>,
    <<"P","h","i","l","a","d","e","l","p","h","i","a">>,
    <<"P","h","o","e","n","i","x">>,
    <<"S","a","n"," ","D","i","e","g","o">>,
    <<"W","a","s","h","i","n","g","t","o","n">>,
    <<"L","o","n","d","o","n">>,
    <<"P","a","r","i","s">>,
    <<"B","e","r","l","i","n">>,
    <<"T","o","k","y","o">>,
    <<"S","i","n","g","a","p","o","r","e">>>>

workplaceTypes ==
  {<<"r","e","m","o","t","e">>,
   <<"h","y","b","r","i","d">>,
   <<"o","n","-","s","i","t","e">>,
   <<"o","n","s","i","t","e">>,
   <<"o","n"," ","s","i","t","e">>}

isWorkplaceType(loc) == toLowerCase(trim(loc)) \in workplaceTypes

\* Steps 1 to 5: the candidates pushed to possibleLocations, in order.  The
\* page is given by what the queries of each step return: the jobLocation
\* of the JSON-LD script, the content of the meta tag, the text of the
\* job-board element, the place the description names, the texts of the
\* elements the generic selectors find, and the visible text.
possibleLocations(page) ==
  LET one(text) == IF text # <<>> THEN <<text>> ELSE <<>>
      site == trim(page.site)
      generic == [i \in 1..Len(page.generic) |-> trim(page.generic[i])]
  IN one(page.jobLocation)
     \o one(page.meta)
     \o (IF Len(site) > 0 /\ Len(site) < 200 THEN <<site>> ELSE <<>>)
     \o one(page.description)
     \o SelectSeq(generic, LAMBDA t : Len(t) > 0 /\ Len(t) < 100)
     \o cityStateScan(page.body, 1)

\* Step 6: the four passes over possibleLocations and the fallback.
prioritizeLocations(locs) ==
  LET first == {i \in 1..Len(locs) : cityStateTest(locs[i])}
      second == {i \in 1..Len(locs) : cityStateMatch(locs[i]).found}
      third == {i \in 1..Len(locs) :
                  \E c \in 1..Len(majorCities) :
                     includes(locs[i], majorCities[c])}
      fourth == {i \in 1..Len(locs) :
                   ~isWorkplaceType(locs[i])
                   /\ Len(locs[i]) >= 2 /\ Len(locs[i]) <= 100}
  IN IF first # {} THEN locs[Min(first)]
     ELSE IF second # {}
     THEN LET m == cityStateMatch(locs[Min(second)])
          IN m.city \o <<",", " ">> \o m.state
     ELSE IF third # {} THEN locs[Min(third)]
     ELSE IF fourth # {} THEN locs[Min(fourth)]
     ELSE IF Len(locs) > 0 THEN locs[1]
     ELSE <<>>

extractLocationAndSelection(page) ==
  prioritizeLocations(possibleLocations(page))

\* The texts a step can find on a page: none, a workplace type, a country, a
\* city that is in the list of major cities, a city and state code with and
\* without the comma.
TextRemote == <<"R","e","m","o","t","e">>
TextCountry == <<"G","e","r","m","a","n","y">>
TextMajorCity == <<"B","e","r","l","i","n"," ","o","f","f","i","c","e">>
TextCityState == <<"A","u","s","t","i","n",","," ","T","X">>
TextCityStateBare == <<"A","u","s","t","i","n"," ","T","X">>
TextOtherCityState == <<"P","o","r","t","l","a","n","d",","," ","O","R">>
BodyTexts ==
  {<<>>,
   <<"R","e","m","o","t","e"," ","r","o","l","e">>,
   <<"J","o","i","n"," ","u","s"," ","i","n"," ","D","e","n","v","e","r",","," ","C","O"," ","o","r"," ","M","i","a","m","i",","," ","F","L">>}

ExtractLocation ==
  /\ eval.fn = "location" /\ eval.pc = "page"
  /\ eval' = [eval EXCEPT
                !.pc = "extracted",
                !.candidates = possibleLocations(eval.page),
                !.location = extractLocationAndSelection(eval.page)]
  /\ UNCHANGED sessionVars

InitLocation ==
  /\ NoSession
  /\ \E jobLocation \in {<<>>, TextRemote, TextCountry, TextCityStateBare},
        meta \in {<<>>, TextRemote, TextCountry},
        site \in {<<>>, TextRemote, TextCountry, TextMajorCity},
        description \in {<<>>, TextOtherCityState},
        generic \in {<<>>, <<TextCountry>>, <<TextRemote, TextCityState>>},
        body \in BodyTexts :
        eval = [fn |-> "location", pc |-> "page",
                page |-> [jobLocation |-> jobLocation, meta |-> meta,
                          site |-> site, description |-> description,
                          generic |-> generic, body |-> body],
                candidates |-> <<>>, location |-> <<>>]
NextLocation == ExtractLocation
SpecLocation == InitLocation /\ [][NextLocation]_vars

(***************************************************************************)
(* Properties                                                              *)
(***************************************************************************)
\* A step in which handleSubmit or handleBackgroundSave hands a call to
\* notionApi.
CallIssued == nCalls' = nCalls + 1

\* C1: every save issued while the session holds a page id (the id of the
\* row the lookup found) is an updatePage call with exactly that id, and
\* never a createPage call.
C1_HeldIdIsUpdated ==
  [][(CallIssued /\ existingPageId # null)
       => (lastCall'.kind = "update" /\ lastCall'.id = existingPageId)]_vars

\* An update of the stored row was issued while the session held its id.
C1_Witness ==
  /\ lastCall.kind = "update"
  /\ lastCall.held = "row1"
  /\ lastCall.id = "row1"

\* C2: once a save of this session has created a page, the next save
\* updates that page and does not create a second one.
C2_NoSecondCreate ==
  lastCall.after # null
    => (lastCall.kind = "update" /\ lastCall.id = lastCall.after)

\* renderForm ran and nothing it read or wrote has changed since.
JustRendered == fresh

\* The existing row has a value for the column: a text, a url or an option
\* that is not empty, any checkbox state, any list of tags.
HasExisting(n) ==
  /\ n \in DOMAIN existingPageData
  /\ TypeOf(n) \in {"title", "url", "select"} => existingPageData[n] # ""

C4_NoHiddenKey ==
  DOMAIN lastCall.payload \cap lastCall.hidden = {}

\* A payload was built while a rendered group with a value was hidden.
C4_Witness ==
  /\ lastCall.kind # "none"
  /\ \E n \in lastCall.hidden \cap Range(lastCall.groups) :
       ~IsBlank(TypeOf(n), lastCall.values[n])

\* C5 as claimed: a visible empty title is sent as "Untitled"; a visible
\* field of another type with an empty value (no text, no option, no tag)
\* is left out of the payload.
C5_EmptyOmitted ==
  \A n \in Range(lastCall.groups) \ lastCall.hidden :
    /\ (TypeOf(n) = "title" /\ lastCall.values[n] = "")
         => (n \in DOMAIN lastCall.payload
             /\ lastCall.payload[n] = PropertyFormatters_title("Untitled"))
    /\ (TypeOf(n) \in {"url", "select"} /\ lastCall.values[n] = "")
         => n \notin DOMAIN lastCall.payload
    /\ (TypeOf(n) = "multi_select" /\ lastCall.values[n] = <<>>)
         => n \notin DOMAIN lastCall.payload

\* C5, amended: a visible empty title is sent as "Untitled"; a visible url
\* or select with the value '' is left out; a checkbox and a multi-select
\* are always sent, the multi-select with its list of tags, empty or not.
C5_BlankOmitted ==
  \A n \in Range(lastCall.groups) \ lastCall.hidden :
    /\ (TypeOf(n) = "title" /\ lastCall.values[n] = "")
         => (n \in DOMAIN lastCall.payload
             /\ lastCall.payload[n] = PropertyFormatters_title("Untitled"))
    /\ (TypeOf(n) \in {"url", "select"} /\ lastCall.values[n] = "")
         => n \notin DOMAIN lastCall.payload
    /\ TypeOf(n) \in {"checkbox", "multi_select"}
         => (n \in DOMAIN lastCall.payload
             /\ lastCall.payload[n] =
                  PropertyFormatters(TypeOf(n), lastCall.values[n]))

\* A payload built from a form with an empty title, an empty select and no
\* tag selected.
C5_Witness ==
  /\ lastCall.kind # "none"
  /\ \E n \in Range(lastCall.groups) \ lastCall.hidden :
       TypeOf(n) = "title" /\ lastCall.values[n] = ""
  /\ \E n \in Range(lastCall.groups) \ lastCall.hidden :
       TypeOf(n) = "select" /\ lastCall.values[n] = ""
  /\ \E n \in Range(lastCall.groups) \ lastCall.hidden :
       TypeOf(n) = "multi_select" /\ lastCall.values[n] = <<>>

Position(seq, n) == Min({i \in 1..Len(seq) : seq[i] = n})

\* C6: after renderForm the groups are the supported columns of the schema
\* that are not hidden, each once; those named in fieldOrder come first, in
\* the order of fieldOrder, the others follow by type priority.
C6_RenderedOrder ==
  JustRendered =>
    /\ Range(formGroups) =
         {n \in SchemaNames(databaseSchema) :
            n \notin hiddenFields /\ TypeOf(n) \in DOMAIN TYPE_PRIORITY}
    /\ \A i, j \in 1..Len(formGroups) :
         i < j =>
           LET a == formGroups[i]
               b == formGroups[j]
           IN /\ a # b
              /\ b \in Range(fieldOrder)
                   => (a \in Range(fieldOrder)
                       /\ Position(fieldOrder, a) < Position(fieldOrder, b))
              /\ (a \notin Range(fieldOrder) /\ b \notin Range(fieldOrder))
                   => TYPE_PRIORITY[TypeOf(a)] <= TYPE_PRIORITY[TypeOf(b)]

\* A form rendered under an order that names a column the schema no longer
\* has and leaves out columns it has.
C6_Witness ==
  /\ JustRendered
  /\ \E n \in Range(fieldOrder) : n \notin SchemaNames(databaseSchema)
  /\ \E n \in Range(formGroups) : n \in Range(fieldOrder)
  /\ \E n \in Range(formGroups) : n \notin Range(fieldOrder)
  /\ hiddenFields # {}

\* The step in which handleAiInputSubmit goes on after extractFields.
AiSettles == aiPc = "request" /\ aiPc' # "request"

\* No option of the column equals the returned value, case ignored: the
\* value is a string or a list of strings none of which names an option,
\* or it is not a string at all.
MatchesNoOption(n, value) ==
  \A o \in Range(ColumnOf(n).options) :
    /\ value.k = "str" => Lower(value.s) # Lower(o)
    /\ value.k = "list"
         => \A i \in 1..Len(value.l) : Lower(value.l[i]) # Lower(o)

\* C7: an AI value for a select or multi-select that matches no option of
\* the column leaves the field as it was, and whatever the AI fill changes
\* in a select or multi-select is an option of the column.
C7_OnlyOptions ==
  [][AiSettles =>
       /\ \A i \in 1..Len(aiReply'.fields) :
            LET n == aiReply'.fields[i][1]
                value == aiReply'.fields[i][2]
            IN (/\ n \in Range(formGroups)
                /\ TypeOf(n) \in {"select", "multi_select"}
                /\ MatchesNoOption(n, value))
                 => (formValue'[n] = formValue[n]
                     /\ formTags'[n] = formTags[n])
       /\ \A n \in Range(formGroups) :
            /\ (TypeOf(n) = "select" /\ formValue'[n] # formValue[n])
                 => formValue'[n] \in Range(ColumnOf(n).options)
            /\ TypeOf(n) = "multi_select"
                 => Range(formValue'[n]) \ Range(formValue[n])
                      \subseteq Range(ColumnOf(n).options)]_vars

\* The AI returned "Berlin" for the rendered Location select, which has no
\* such option, and a list with "Rust" for Tags, which has no such tag.
C7_Witness ==
  /\ aiOutcome # "none"
  /\ aiPc # "request"
  /\ aiReply.ok
  /\ \E i \in 1..Len(aiReply.fields) :
       aiReply.fields[i] = <<"Location", Str("Berlin")>>
  /\ \E i \in 1..Len(aiReply.fields) : aiReply.fields[i][1] = "Tags"
  /\ {"Location", "Tags"} \subseteq Range(formGroups)
  /\ formValue["Location"] # "Berlin"
  /\ "Rust" \notin Range(formValue["Tags"])

\* C8: when the AI sub-flow ends with an error shown to the user, the step
\* that ends it leaves every form field as it was and sends no save.
C8_ErrorLeavesForm ==
  [][(AiSettles /\ aiOutcome' \in {"error", "nothing"})
       => (formValue' = formValue /\ formTags' = formTags
           /\ nCalls' = nCalls /\ bgReq' = bgReq)]_vars

\* A step in which a checkForExistingEntry of init() or refreshSchema()
\* goes on after its query.
LookupSettles ==
  \/ initPc \in {"lookup1", "relookup", "lookup2"} /\ initPc' # initPc
  \/ refreshPc = "lookup" /\ refreshPc' = "idle"

\* C9: a row lookup whose query fails does not stop the session: no error
\* state follows, the session holds no page id and no row data, the form is
\* rendered for a new entry, and the lookups that end init() show it.
C9_LookupFailureSwallowed ==
  [][(LookupSettles /\ lastLookup' = "failed")
       => /\ existingPageId' = null
          /\ existingPageData' = NoData
          /\ ui' # "error"
          /\ initPc' # "failed"
          /\ fresh'
          /\ ~banner'
          /\ submitLabel' = "create"
          /\ (initPc \in {"lookup1", "lookup2"} /\ initPc' # initPc)
               => ui' = "form"]_vars

\* The query for a page that has a stored row failed, after an earlier
\* lookup of the session had found the row; the form is shown.
C9_Witness ==
  /\ lastLookup = "failed"
  /\ store # <<>>
  /\ nQueries >= 2
  /\ initPc = "done"
  /\ ui = "form"
  /\ existingPageId = null
  /\ fresh

\* C10: a session that could not load the credentials shows the error state
\* and stays in it, with no schema, no query, no form and no call.
C10_ErrorStateStays ==
  (initPc = "failed" /\ ~credentials)
    => /\ ui = "error"
       /\ databaseSchema = NoSchema
       /\ nQueries = 0
       /\ formGroups = <<>>
       /\ nCalls = 0

\* The values a field of the type can hold that are not the empty value
\* of a number field.
InDomain == eval.type = "number" => eval.value.k = "num"

\* C11: a value that was serialized, stored and returned by the store is
\* parsed back to a value equal to it, for every type; a rich text of
\* several blocks comes back as the concatenation of the blocks.
C11_RoundTrip ==
  (eval.fn = "wire" /\ eval.pc = "parsed" /\ eval.stored /\ InDomain)
    => eval.out = eval.value

\* The contents of the blocks of a rich_text value, concatenated in order.
RECURSIVE Concat(_)
Concat(blocks) ==
  IF blocks = <<>> THEN <<>>
  ELSE Head(blocks).text.content \o Concat(Tail(blocks))

\* C12: PropertyFormatters.rich_text emits at least one block, a single
\* empty one for the empty text; no block is longer than MAX_CHARS and the
\* blocks concatenated in order are the input.
C12_ChunksAreLossless ==
  (eval.fn = "wire" /\ eval.type = "rich_text" /\ eval.pc = "wire")
    => LET blocks == eval.wire.rich_text IN
         /\ Len(blocks) >= 1
         /\ eval.value = <<>> => blocks = << [text |-> [content |-> <<>>]] >>
         /\ \A i \in 1..Len(blocks) :
              Len(blocks[i].text.content) <= MAX_CHARS
         /\ Concat(blocks) = eval.value

\* A text of 5000 different characters was split into three blocks, and
\* the empty text into one.
C12_Witness ==
  /\ eval.fn = "wire" /\ eval.type = "rich_text" /\ eval.pc = "wire"
  /\ Len(eval.value) = 5000
  /\ Len(eval.wire.rich_text) = 3
  /\ Len(eval.wire.rich_text[3].text.content) = 5000 - 2 * MAX_CHARS

\* The text typed into a number field is empty or is not a number.
NotANumber(typed) == typed = <<>> \/ ~validFloat(typed)

SegmentBefore(title) ==
  SubSeq(title, 1, Min(Occurrences(title, Separator)) - 1)
SegmentAfter(title) ==
  LET rest == SubSeq(title, Min(Occurrences(title, Separator)) + 3,
                     Len(title))
  IN IF Occurrences(rest, Separator) = {} THEN rest
     ELSE SubSeq(rest, 1, Min(Occurrences(rest, Separator)) - 1)

\* C17 as claimed: roleName and companyName are the segments before and
\* after the first " | " of the title; without a separator roleName is the
\* title and companyName is empty.
C17_TitleSegments ==
  (eval.fn = "tab" /\ eval.pc = "info")
    => IF Occurrences(eval.title, Separator) # {}
       THEN /\ eval.info.roleName = SegmentBefore(eval.title)
            /\ eval.info.companyName = SegmentAfter(eval.title)
       ELSE /\ eval.info.roleName = eval.title
            /\ eval.info.companyName = <<>>

\* C17, amended: roleName and companyName are those segments with the
\* white space at their ends removed.
C17_TrimmedSegments ==
  (eval.fn = "tab" /\ eval.pc = "info")
    => IF Occurrences(eval.title, Separator) # {}
       THEN /\ eval.info.roleName = trim(SegmentBefore(eval.title))
            /\ eval.info.companyName = trim(SegmentAfter(eval.title))
       ELSE /\ eval.info.roleName = eval.title
            /\ eval.info.companyName = <<>>

\* "Senior Engineer | Acme Corp | LinkedIn" was split.
C17_Witness ==
  /\ eval.fn = "tab" /\ eval.pc = "info"
  /\ eval.title = LinkedInTitle
  /\ eval.info.roleName = SubSeq(LinkedInTitle, 1, 15)
  /\ eval.info.companyName = SubSeq(LinkedInTitle, 19, 27)

\* The location as it is compared: lower case, trimmed.
Compared(text) == trim(Lower(text))

Matched == eval.fn = "match" /\ eval.pc = "matched"

\* The options whose name is a case-insensitive substring of the text.
OptionsInText(text, options) ==
  {i \in 1..Len(options) : includes(Compared(text), Lower(options[i]))}

\* The options that have the text as a case-insensitive substring.
OptionsAroundText(text, options) ==
  {i \in 1..Len(options) : includes(Lower(options[i]), Compared(text))}

NoExactOption(text, options) ==
  \A i \in 1..Len(options) : Lower(options[i]) # Compared(text)

\* C14: when no option equals the text, an option whose name is a
\* substring of the text wins over an option that has the text as a
\* substring, whatever the order of the options.
C14_OptionInTextFirst ==
  (/\ Matched
   /\ eval.text # ""
   /\ NoExactOption(eval.text, eval.options)
   /\ OptionsInText(eval.text, eval.options) # {})
    => \E i \in OptionsInText(eval.text, eval.options) :
          eval.out = eval.options[i]

\* No tier before the state code gives an option.
NoEarlierTier(text, options) ==
  /\ NoExactOption(text, options)
  /\ OptionsInText(text, options) = {}
  /\ OptionsAroundText(text, options) = {}
  /\ ~ /\ includes(Compared(text), Lit("remote"))
       /\ \E i \in 1..Len(options) : includes(Lower(options[i]), Lit("remote"))
  /\ cityStateTier(1, Compared(text), options) = null

\* C15: when no earlier tier matches, the text has a ", XX" state code and
\* an option contains that code, an option that contains the code is
\* returned.
C15_StateCodeMatches ==
  (/\ Matched
   /\ eval.text # ""
   /\ NoEarlierTier(eval.text, eval.options)
   /\ stateMatch(Chars(eval.text)) # <<>>
   /\ \E i \in 1..Len(eval.options) :
         includes(Lower(eval.options[i]), stateMatch(Chars(eval.text))))
    => /\ eval.out # null
       /\ includes(Lower(eval.out), stateMatch(Chars(eval.text)))

\* C16: the result is null or one of the options; it is null when the text
\* is empty or blank, when there is no option, and for "Berlin" against
\* Remote and San Francisco.
C16_NullOrRelatedOption ==
  Matched
    => /\ eval.out # null => \E i \in 1..Len(eval.options) :
                                eval.out = eval.options[i]
       /\ (Compared(eval.text) = <<>> \/ eval.options = <<>>)
            => eval.out = null
       /\ (eval.text = "Berlin" /\ eval.options = <<"Remote", "San Francisco">>)
            => eval.out = null

\* C18: a JSON object wrapped in ```json fences is parsed to the same
\* fields as the object unwrapped, and neither is rejected.
C18_FencedParsesAsBare ==
  (eval.fn = "extract" /\ eval.pc = "settled")
    => /\ eval.result.ok
       /\ eval.result.fields = fieldsOf(eval.object)

(***************************************************************************)
(* C13: the tracker scenario                                               *)
(***************************************************************************)
\* The form and the payload of the scenario with the given text in Name.
ScenarioForm(nameText) ==
  [n \in {"Name", "URL", "Status", "Location"} |->
     CASE n = "Name" -> nameText
       [] n = "URL" -> "https://jobs.acme.test/123"
       [] n = "Status" -> ""
       [] n = "Location" -> "Remote"]

ScenarioPayload(nameText) ==
  [n \in {"Name", "URL", "Location"} |->
     CASE n = "Name" -> [title |-> << [text |-> [content |-> nameText]] >>]
       [] n = "URL" -> [url |-> Some("https://jobs.acme.test/123")]
       [] n = "Location" -> [select |-> Some([name |-> "Remote"])]]

\* The form shows exactly the given values in the four columns.
FormShows(groups, values, form) ==
  /\ Range(groups) = DOMAIN form
  /\ \A n \in DOMAIN form : values[n] = form[n]

\* The form of the scenario as renderForm leaves it.
AsRendered == renderForm(TrackerSchema, TabPage, {}, <<>>, null, NoData)

\* The scenario as a statement with the given text in Name: while the
\* database has no row, the form as rendered shows the values, and the
\* first call of the session, when it submits the unchanged form, is a
\* create with the payload (no Status key).
ScenarioHolds(nameText) ==
  /\ (ui = "form" /\ fresh /\ store = <<>>)
        => FormShows(formGroups, formValue, ScenarioForm(nameText))
  /\ (nCalls = 1 /\ lastCall.values = AsRendered.values)
        => /\ lastCall.kind = "create"
           /\ lastCall.id = null
           /\ lastCall.payload = ScenarioPayload(nameText)

\* C13 as stated: with the tracker schema, the tab "Backend Engineer | Acme
\* | LinkedIn" and no existing row, the form renders Name = "Backend
\* Engineer", the URL, Status unset and Location = "Remote", and submitting
\* it unchanged issues one create with Name, URL and Location and no Status.
C13_ScenarioRoleName == ScenarioHolds("Backend Engineer")

\* C13 amended: the same with Name = the full tab title, "Name" not being a
\* role field.
C13_ScenarioTabTitle == ScenarioHolds("Backend Engineer | Acme | LinkedIn")

C13_Witness ==
  /\ lastCall.kind = "create"
  /\ nCalls = 1 /\ nActs = 1
  /\ fresh
  /\ lastCall.payload = ScenarioPayload(TabPage.title)
  /\ "Status" \in Range(lastCall.groups)

(***************************************************************************)
(* C20: unsupported column types                                           *)
(***************************************************************************)
SupportedTypes ==
  {"title", "rich_text", "url", "number", "checkbox", "select",
   "multi_select", "date", "email", "phone_number", "status"}

Unsupported(names) == {n \in names : TypeOf(n) \notin SupportedTypes}

\* C20: a column whose type is not a supported one is never a field of the
\* form and never a key of the payload of a create or update call, whether
\* the call is awaited by handleSubmit or by the background save, or was
\* the last one handed to the API.
C20_UnsupportedDropped ==
  /\ Unsupported(Range(formGroups)) = {}
  /\ Unsupported(DOMAIN lastCall.payload) = {}
  /\ Unsupported(DOMAIN submitReq.payload) = {}
  /\ Unsupported(DOMAIN bgReq.payload) = {}

\* The schema has an unsupported column, the form was rendered from it and
\* a call carried a payload built from the form.
C20_Witness ==
  /\ Unsupported(SchemaNames(databaseSchema)) # {}
  /\ Len(formGroups) > 0
  /\ lastCall.kind \in {"create", "update"}
  /\ DOMAIN lastCall.payload # {}

(***************************************************************************)
(* C21: the editing indicator and the submit label                         *)
(***************************************************************************)
\* C21: whenever the form is displayed, the session holds a page id exactly
\* when the "Editing existing entry" banner is in the form and the submit
\* buttons carry the update label; without an id the banner is absent and
\* the buttons carry the create label.
C21_IndicatorMatchesMode ==
  ui = "form" =>
    IF existingPageId # null
    THEN banner /\ submitLabel = "update"
    ELSE ~banner /\ submitLabel = "create"

(***************************************************************************)
(* C22: when the row lookup is sent and what it takes                      *)
(***************************************************************************)
\* The first url-typed column of a schema, null when it has none.
FirstUrlColumn(schema) ==
  LET props == Properties(schema)
      urls == {i \in 1..Len(props) : props[i].type = "url"}
  IN IF urls = {} THEN null
     ELSE props[CHOOSE i \in urls : \A j \in urls : i <= j].name

\* The rows whose value in the column is exactly the URL, by position.
RowsWithUrl(rows, column, u) ==
  {i \in 1..Len(rows) : rows[i].properties[column] = [url |-> <<u>>]}

\* The ids of the rows the database had before the session saved anything.
StoredIds == {"row1", "rowA", "rowB", "rowC", "rowP"}

\* C22: (a) with a schema without url column, or a tab without URL, no
\* lookup query is sent, the session holds no id of a stored row, and every
\* call is a create unless it updates the page the session itself created;
\* (b) with a url column and a tab URL, a lookup that found a row holds the
\* id of the first row whose first url column equals the tab URL, and one
\* that found none was sent while no row had that value.
C22_LookupOnFirstUrlColumn ==
  /\ (FirstUrlColumn(dbSchema) = null \/ tabInfo.url = "")
       => /\ nQueries = 0
          /\ existingPageId \notin StoredIds
          /\ lastCall.kind = "create" \/ lastCall.id \notin StoredIds
          /\ lastCall.held = null => lastCall.kind # "update"
  /\ (FirstUrlColumn(dbSchema) # null /\ tabInfo.url # "" /\ nCalls = 0)
       => LET hits == RowsWithUrl(store, FirstUrlColumn(dbSchema),
                                  tabInfo.url)
          IN /\ lastLookup # "none" => nQueries > 0
             /\ lastLookup = "found" =>
                  /\ hits # {}
                  /\ existingPageId =
                       store[CHOOSE i \in hits : \A j \in hits : i <= j].id
             /\ lastLookup = "empty" => hits = {} /\ existingPageId = null

\* A lookup on the database with two url columns found the row that holds
\* the URL in the first of them, passing over the row that holds it in the
\* second; and a session without lookup created a page although the
\* database has a row.
C22_Witness ==
  \/ /\ dbSchema = "links" /\ Len(store) = 3
     /\ lastLookup = "found" /\ existingPageId = "rowB" /\ nCalls = 0
     /\ ui = "form"
  \/ /\ FirstUrlColumn(dbSchema) = null /\ Len(store) = 2
     /\ lastCall.kind = "create" /\ nQueries = 0

(***************************************************************************)
(* C23: creates of one session                                             *)
(***************************************************************************)
\* The create calls of the session that the store carried out, and the
\* ones it has not answered yet.
CreatesDone == Cardinality({i \in 1..Len(store) : store[i].id \notin StoredIds})
CreatesInFlight ==
  (IF submitReq.kind = "create" THEN 1 ELSE 0)
    + (IF bgReq.kind = "create" THEN 1 ELSE 0)

\* C23: in a session without "Add another", the create calls that were
\* carried out or are in flight are at most one, whichever of the submit
\* button, the quick-save message and the AI background save issued them.
C23_AtMostOneCreate == CreatesDone + CreatesInFlight <= 1

(***************************************************************************)
(* C24: submits while the AI sub-flow runs                                 *)
(***************************************************************************)
\* The AI request or its background save is in flight.
AiInFlight == aiPc \in {"request", "saving"}

\* C24: while the AI request or its background save is in flight, no
\* handleSubmit starts a create or update call, by the button or by the
\* quick-save message.
C24_NoSubmitDuringAi ==
  [][(AiInFlight /\ submitReq.kind = "none") => submitReq'.kind = "none"]_vars

(***************************************************************************)
(* C25: responses that arrive after the success panel is shown             *)
(***************************************************************************)
\* C25: while the success panel stays shown, nothing is applied to the
\* session: no field value or rendered field changes, no create or update
\* call is issued, and the mode (the page id held) does not change.
C25_LateResponseIgnored ==
  [][(ui = "success" /\ ui' = "success")
       => /\ formValue' = formValue
          /\ formGroups' = formGroups
          /\ banner' = banner
          /\ nCalls' = nCalls
          /\ existingPageId' = existingPageId]_vars

(***************************************************************************)
(* C26: a held page id and later lookups                                   *)
(***************************************************************************)
\* C26: a page id the session holds is cleared only by "Add another" (the
\* success panel gives way to a new form); no re-check of the row, failing
\* or finding nothing, clears it.
C26_HeldIdSurvivesRecheck ==
  [][(existingPageId # null /\ existingPageId' = null)
       => (ui = "success" /\ ui' = "form" /\ sessionCreated' = null)]_vars

(***************************************************************************)
(* C27: lookups during start-up                                            *)
(***************************************************************************)
\* The start-up paths, by what loadCachedSchema gave init().
NoCachedPath == cachedSchema = NoSchema
SameCachedPath == cachedSchema # NoSchema /\ cachedSchema = dbSchema
ChangedCachedPath == cachedSchema # NoSchema /\ cachedSchema # dbSchema

\* C27: when init() has finished for a tab with a URL and a schema with a
\* url column, exactly one lookup query was sent, whatever the cache held.
C27_OneLookupAtStart ==
  (initPc = "done" /\ tabInfo.url # "" /\ FirstUrlColumn(databaseSchema) # null)
    => nQueries = 1

(***************************************************************************)
(* C28: the background fetch returns the cached schema                     *)
(***************************************************************************)
\* init()'s getDatabase() settles in this step, after the form was rendered
\* from a cached schema.
FetchSettlesOnCached ==
  initPc = "fetch" /\ initPc' # "fetch" /\ cachedSchema # NoSchema

UsableEntry(entry) ==
  /\ entry.schema # NoSchema
  /\ entry.databaseId = DatabaseId
  /\ entry.age < 5 * 60 * 1000

\* C29: init() gets the cached schema from loadCachedSchema exactly when
\* the entry was cached under the current database id and is younger than
\* the TTL, and nothing otherwise; and the first form of a session is
\* rendered from such a cached schema or from the schema of the database.
C29_OnlyUsableEntry ==
  /\ [][(initPc = "join" /\ initPc' # "join")
          => cachedSchema' = IF UsableEntry(cache) THEN cache.schema
                             ELSE NoSchema]_vars
  /\ [][(formGroups = <<>> /\ formGroups' # <<>>)
          => \/ databaseSchema' = dbSchema
             \/ cachedSchema # NoSchema /\ databaseSchema' = cachedSchema]_vars

\* init() found an entry of another database, or one as old as the TTL:
\* loadCachedSchema gave it nothing, no form is rendered and getDatabase()
\* is awaited.
C29_Witness ==
  /\ initPc = "fetch"
  /\ cachedSchema = NoSchema /\ databaseSchema = NoSchema
  /\ cache.schema # NoSchema
  /\ cache.databaseId # DatabaseId \/ cache.age >= 5 * 60 * 1000
  /\ formGroups = <<>>

(***************************************************************************)
(* C30: start-up without tab signals or AI key                             *)
(***************************************************************************)
\* C30: the step that takes the results of getTabInfo and loadApiKey never
\* ends init() or shows the error panel, whatever the two gave; init() fails
\* only without credentials or without any schema; when it has finished the
\* form is rendered and shown, the AI button is offered only with a key,
\* and a form rendered for a new entry without tab signals has an empty
\* title and URL.
C30_SignalsAreOptional ==
  /\ [][(initPc = "join" /\ initPc' # "join")
          => (initPc' \in {"lookup1", "fetch"} /\ ui' = ui)]_vars
  /\ [](initPc = "failed"
          => (~credentials \/ (cachedSchema = NoSchema
                                /\ databaseSchema = NoSchema)))
  /\ [](initPc = "done"
          => /\ ui = "form"
             /\ databaseSchema # NoSchema
             /\ Len(formGroups) > 0
             /\ aiShown = hasOpenAI)
  /\ []((ui = "form" /\ fresh /\ tabInfo.url = "" /\ tabInfo.title = "")
          => (formValue["URL"] = "" /\ formValue["Name"] = ""))

\* getTabInfo and loadApiKey both failed, and init() finished with the form
\* rendered from the fetched schema, without the AI button.
C30_Witness ==
  /\ initPc = "done"
  /\ tabInfo.url = "" /\ tabInfo.title = "" /\ ~hasOpenAI
  /\ cachedSchema = NoSchema /\ databaseSchema = dbSchema
  /\ ui = "form" /\ Len(formGroups) > 0 /\ fresh
  /\ ~aiShown

(***************************************************************************)
(* C31: the AI fill overwrites the rendered fields                         *)
(***************************************************************************)
\* The value the form holds for a rendered column n once the returned value
\* v has replaced what it held: the text for a text column, the option for
\* a choice column, exactly the returned options for a multi-select.
Overwritten(n, v, values, tags) ==
  LET type == TypeOf(n)
      options == Range(ColumnOf(n).options)
  IN CASE type \in {"title", "url"} ->
            v.k = "str" => values[n] = v.s
       [] type = "select" ->
            (v.k = "str" /\ v.s \in options) => values[n] = v.s
       [] type = "multi_select" ->
            (v.k = "list" /\ Range(v.l) # {} /\ Range(v.l) \subseteq options)
               => /\ tags[n] = Range(v.l)
                  /\ Range(values[n]) = Range(v.l)
       [] OTHER -> TRUE

\* C31: when the AI request settles with an object and the fill loop ends
\* without an error, every rendered column of the response with a non-empty
\* value (for a choice column: a value of its option list) holds the
\* returned value, and a multi-select holds exactly the returned set.
C31_FillOverwrites ==
  [][(aiPc = "request" /\ aiPc' # "request"
        /\ aiReply'.ok /\ aiOutcome' # "error")
       => \A i \in 1..Len(aiReply'.fields) :
            LET n == aiReply'.fields[i][1]
                v == aiReply'.fields[i][2]
            IN (n \in Range(formGroups) /\ ~(v.k = "str" /\ v.s = ""))
                 => Overwritten(n, v, formValue', formTags')]_vars

(***************************************************************************)
(* C32: an update stores what the form shows                               *)
(***************************************************************************)
\* What the store holds for a column whose value is the form value v: the
\* empty value for a cleared field, the serialized value otherwise.
StoredAs(type, v) ==
  IF IsBlank(type, v) THEN emptyStored(type)
  ELSE storedValue(type, PropertyFormatters(type, v))

RowOf(rows, id) == rows[CHOOSE i \in 1..Len(rows) : rows[i].id = id]

\* C32: when the update call of a submit succeeds, the updated row holds,
\* for every rendered column that is not hidden, the value the form showed
\* when it was submitted: a cleared field is cleared in the row.
C32_UpdateStoresForm ==
  [][(submitReq.kind = "update" /\ ui' = "success"
        /\ lastCall.source \in {"button", "shortcut"}
        /\ lastCall.kind = "update")
       => \A n \in Range(lastCall.groups) \ lastCall.hidden :
            RowOf(store', submitReq.id).properties[n]
              = StoredAs(TypeOf(n), lastCall.values[n])]_vars

(***************************************************************************)
(* C33: the customize modal closed without saving                          *)
(***************************************************************************)
\* The hidden set chrome.storage holds.
SavedHidden == IF storedHidden = None THEN {} ELSE storedHidden[1]

\* C33: with the form shown and the customize modal closed, hiddenFields
\* and fieldOrder are the saved ones.  Every handler outside the modal that
\* changes them saves them, so they are the saved ones when the modal is
\* opened; closing the modal without saving writes nothing, so they are
\* unchanged by a modal that was opened and closed exactly when they are
\* still the saved ones afterwards.
C33_CloseRestoresPrefs ==
  (ui = "form" /\ ~customizeOpen)
    => (hiddenFields = SavedHidden /\ fieldOrder = storedOrder)

(***************************************************************************)
(* C34: the title column in create payloads                                *)
(***************************************************************************)
TitleColumns(schema) == {n \in SchemaNames(schema) : TypeOf(n) = "title"}

\* C34: the payload of every create call made from the rendered form has
\* the title column of the schema as a key, whatever fields are hidden.
C34_CreateHasTitle ==
  [][(CallIssued /\ lastCall'.kind = "create" /\ Len(formGroups) > 0)
       => TitleColumns(databaseSchema) \subseteq DOMAIN lastCall'.payload]_vars

(***************************************************************************)
(* C35: a save that fails                                                  *)
(***************************************************************************)
\* The call of handleSubmit settles without the success panel.
SubmitFails ==
  submitReq.kind # "none" /\ submitReq'.kind = "none" /\ ui' # "success"

\* The call of handleBackgroundSave settles without having saved.
BgSaveFails ==
  aiPc = "saving" /\ aiPc' # "saving" /\ aiOutcome' # "saved"

\* C35: when the call of a submit fails, the panel, the held page id, the
\* submit label and the form are what they were, the error is reported, both
\* buttons are enabled and no call is made; the same holds for the
\* background save of the AI sub-flow, which reports by its toast; and the
\* buttons are never disabled without a call of handleSubmit in flight.
C35_FailureKeepsForm ==
  /\ [][SubmitFails
          => /\ ui' = ui
             /\ existingPageId' = existingPageId
             /\ submitLabel' = submitLabel
             /\ formVars' = formVars
             /\ submitOutcome' = "error"
             /\ ~saveDisabled'
             /\ nCalls' = nCalls /\ lastCall' = lastCall
             /\ store' = store]_vars
  /\ [][BgSaveFails
          => /\ ui' = ui
             /\ existingPageId' = existingPageId
             /\ submitLabel' = submitLabel
             /\ formVars' = formVars
             /\ aiOutcome' = "saveFailed"
             /\ saveDisabled' = saveDisabled
             /\ nCalls' = nCalls /\ lastCall' = lastCall
             /\ store' = store]_vars
  /\ [](saveDisabled => submitReq.kind # "none")

\* The update of a stored row and the create of a new entry failed: the
\* form is shown in the same mode, the error was reported, the buttons are
\* enabled, one call was made.
C35_Witness ==
  /\ submitOutcome = "error" /\ submitReq.kind = "none"
  /\ lastCall.source \in {"button", "shortcut"} /\ nCalls = 1
  /\ ui = "form" /\ ~saveDisabled
  /\ existingPageId = lastCall.id
  /\ submitLabel = lastCall.kind
  /\ formValue = lastCall.values

(***************************************************************************)
(* C36: hiding a field and showing it again                                *)
(***************************************************************************)
\* The form groups renderForm appends after toggleFieldVisibility hid the
\* field n and a second call showed it again.
HiddenThenShown(n) ==
  LET hid == toggleFieldVisibility(n, hiddenFields, fieldOrder)
      shown == toggleFieldVisibility(n, hid.hidden, hid.order)
  IN renderForm(databaseSchema, tabInfo, shown.hidden, shown.order,
                existingPageId, existingPageData).groups

\* C36: for a form as renderForm left it and every field it shows, hiding
\* the field and showing it again renders the same fields in the same
\* order.
C36_HideShowRestores ==
  (ui = "form" /\ fresh /\ ~customizeOpen /\ pendingRenders = 0)
    => \A n \in Range(formGroups) \ hiddenFields :
         HiddenThenShown(n) = formGroups

(***************************************************************************)
(* C37: hidden columns and the AI                                          *)
(***************************************************************************)
\* The columns that are hidden and have no form group.
HiddenUnrendered == hiddenFields \ Range(formGroups)

\* C37: the prompt of an AI request lists no column that is in hiddenFields
\* when the request is made; and no step changes the form's value for a
\* column that is hidden and not rendered, nor sends a payload with it: a
\* value the AI returns for such a column is dropped.
C37_HiddenStaysOut ==
  /\ [][(aiPc # "request" /\ aiPc' = "request")
          => \A i \in 1..Len(aiPrompt') :
               aiPrompt'[i].name \notin hiddenFields]_vars
  /\ [][(aiPc = "request" /\ aiPc' # "request")
          => \A n \in HiddenUnrendered :
               /\ formValue'[n] = formValue[n]
               /\ formTags'[n] = formTags[n]]_vars
  /\ [][CallIssued
          => \A n \in HiddenUnrendered : n \notin DOMAIN lastCall'.payload]_vars

\* The AI was asked with Location hidden and not rendered, returned a value
\* for Location all the same, and the background save was sent.
C37_Witness ==
  /\ aiReply.ok
  /\ \E i \in 1..Len(aiReply.fields) : aiReply.fields[i][1] = "Location"
  /\ "Location" \in HiddenUnrendered
  /\ Len(aiPrompt) > 0
  /\ \A i \in 1..Len(aiPrompt) : aiPrompt[i].name # "Location"
  /\ lastCall.source = "ai"
  /\ "Location" \notin DOMAIN lastCall.payload
  /\ formValue["Location"] = ""

(***************************************************************************)
(* C38: the stage priority of the location                                 *)
(***************************************************************************)
\* The candidates that are not a bare workplace-type word.
Genuine(locs) == {i \in 1..Len(locs) : ~isWorkplaceType(locs[i])}

\* C38: the location is the first candidate, in the order of the stages,
\* that is not a bare workplace-type word; the first candidate when all are
\* such words; the empty string without candidates.
C38_FirstCandidateWins ==
  (eval.fn = "location" /\ eval.pc = "extracted")
    => eval.location =
         IF Genuine(eval.candidates) # {}
         THEN eval.candidates[Min(Genuine(eval.candidates))]
         ELSE IF Len(eval.candidates) > 0 THEN eval.candidates[1]
         ELSE <<>>

====
